---- MODULE Spec2Model ----
(***************************************************************************)
(* State-machine model of TalkTo's delivery core:                          *)
(*   - the direct-message queue with smart pull and fallback               *)
(*     (src/talkto/db.py, tools.py, server.py),                            *)
(*   - the OpenCode serve supervisor (src/talkto/backends.py),             *)
(*   - agent credentials, ghost detection and the invocation path          *)
(*     (src/backend/app/services, src/backend/app/api/agents.py).          *)
(* The server is one asyncio process: a handler runs atomically from one   *)
(* await to the next, so every action below is the code between two awaits.*)
(***************************************************************************)
EXTENDS Integers, Sequences, FiniteSets, TLC

\* ------------------------------------------------------------------ bounds
MaxEntries == 2
MaxRequests == 1
MaxStartRequests == 2
MaxAttempts == 2
MaxRuns == 2
MaxMentions == 2

\* ------------------------------------------------------- program constants
SMART_PULL_TIMEOUT == 45
poll_interval == 2
max_wait == 60
start_wait_rounds == 60
MAX_AGE_MINUTES == 5

\* ------------------------------------------------------------ value sets
NoneVal == "None"
EntryIds == 1..MaxEntries
AgentNames == {"yara", "nibex"}
Yash == "yash"
CliTypes == {"claude"}
SessionIds == {"ses_abc"}
WorkingDirs == {"/proj"}
ResponseTexts == {"pong", "ack"}
Opt(S) == S \cup {NoneVal}

VARIABLES
    direct_queue,   \* table direct_queue: entry id -> row (status "absent": no row)
    agents,         \* table agents of src/talkto/db.py: name -> row
    dm,             \* one direct request per entry id: the handler's position and locals
    chat,           \* response messages inserted into the chat, per direct request
    invoked,        \* calls of backend_manager.send_to_agent, per direct request
    timer,          \* what the wall clock has passed, per direct request
    opencode_starting,  \* BackendManager._opencode_starting
    opencode_backend,   \* BackendManager._opencode_backend: None, or the start request that made it
    backends,       \* the OpenCodeServerBackend object each start request made: status, process
    req,            \* each start request: its position, its loop counters, how it ended
    port,           \* who listens on the OpenCode port
    cli_found,      \* whether _resolve_cli finds the opencode executable
    spawned,        \* calls of subprocess.Popen, per start request
    app_agents,     \* table agents of src/backend: agent_name -> row
    os_session,     \* the agent's active Session row: "none", or whether its pid is "live" or "dead"
    session_rows,   \* per agent: how many Session rows have is_active = 1, and their last_heartbeat
    opencode,       \* what GET {server_url}/session answers: state and the listed session ids
    ghost_cache,    \* _ghost_cache of api/agents.py
    ghost_checked,  \* the last call of is_agent_ghost: <<agent_name, answer>>
    attempts,       \* invocation attempts: position, locals, outcome, prompts posted
    discovery,      \* one run of auto_discover: position, arguments, strategies invoked, result
    route,          \* the invocation task of one message: position, locals, recipients reached
    events,         \* the typing events broadcast for that message, in order
    ws_slots,       \* ConnectionManager._clients: its entries in insertion order, a removed one negated
    ws_clients,     \* per connection id: the WSClient, its socket state, whether it got the event
    bcast,          \* one request to the broadcast endpoint: position, event, iteration, response
    prompt,         \* one call of send_to_agent for an opencode agent: position, locals, requests made
    watchdog, \* BackendManager._watchdog_loop: position, the backend in hand, this cycle, _restart_count
    loops, \* the asyncio task of each background loop: its state, cancel requested, where the loop is, cycles run
    shutdown, \* per loop: how far the shutdown routine that owns it has got
    tasks, \* the fire-and-forget invocation tasks made so far: who made them, their state
    background_tasks, \* _background_tasks of services/agent_invoker.py
    refresh, \* one run of _refresh_ghost_cache: position, agents read, opencode_sessions, new_cache, requests sent
    scan, \* one call of discover_session_by_process_scan: its arguments, what ps and the OpenCode DB hold, its result
    connected \* the last call of connect_agent: its arguments, what auto_discover returned, the row it found

queueVars == <<direct_queue, agents, dm, chat, invoked, timer>>
backendVars == <<opencode_starting, opencode_backend, backends, req, port, cli_found, spawned>>
appVars == <<app_agents, os_session, session_rows, opencode, ghost_cache, ghost_checked, attempts>>
discVars == <<discovery>>
routeVars == <<route, events>>
wsVars == <<ws_slots, ws_clients, bcast>>
promptVars == <<prompt>>
watchVars == <<watchdog>>
taskVars == <<loops, shutdown, tasks, background_tasks>>
refreshVars == <<refresh>>
scanVars == <<scan>>
connectVars == <<connected>>
vars == <<queueVars, backendVars, appVars, discVars, routeVars, wsVars, promptVars, watchVars, taskVars, refreshVars, scanVars, connectVars>>

\* what the handlers of one part leave alone
notQueue == <<backendVars, appVars, discVars, routeVars, wsVars, promptVars, watchVars, taskVars, refreshVars, scanVars, connectVars>>
notBackend == <<queueVars, appVars, discVars, routeVars, wsVars, promptVars, watchVars, taskVars, refreshVars, scanVars, connectVars>>
notApp == <<queueVars, backendVars, discVars, routeVars, wsVars, promptVars, watchVars, taskVars, refreshVars, scanVars, connectVars>>
notDisc == <<queueVars, backendVars, appVars, routeVars, wsVars, promptVars, watchVars, taskVars, refreshVars, scanVars, connectVars>>
notRoute == <<queueVars, backendVars, discVars, wsVars, promptVars, watchVars, taskVars, refreshVars, scanVars, connectVars>>
notWs == <<queueVars, backendVars, appVars, discVars, routeVars, promptVars, watchVars, taskVars, refreshVars, scanVars, connectVars>>
notPrompt == <<queueVars, appVars, discVars, routeVars, wsVars, watchVars, taskVars, refreshVars, scanVars, connectVars>>
notWatchdog == <<queueVars, appVars, discVars, routeVars, wsVars, promptVars, taskVars, refreshVars, scanVars, connectVars>>
notTasks == <<queueVars, backendVars, appVars, discVars, routeVars, wsVars, promptVars, watchVars, refreshVars, scanVars, connectVars>>
notRefresh == <<queueVars, backendVars, discVars, routeVars, wsVars, promptVars, watchVars, taskVars, scanVars, connectVars>>
notScan == <<queueVars, backendVars, appVars, discVars, routeVars, wsVars, promptVars, watchVars, taskVars, refreshVars, connectVars>>
notConnect == <<queueVars, backendVars, discVars, routeVars, wsVars, promptVars, watchVars, taskVars, refreshVars, scanVars>>

\* ============================================================ talkto/db.py

NoRow == [status |-> "absent", response |-> NoneVal,
          from_agent |-> NoneVal, to_agent |-> NoneVal]

NoAgent == [registered |-> FALSE, cli_type |-> NoneVal,
            session_id |-> NoneVal, working_dir |-> NoneVal]

Open == {"pending", "delivered"}
Terminal == {"responded", "expired", "fallback"}

\* register_agent: INSERT, or on re-registration keep what the caller left empty.
register_agent(tbl, name, cli, wd) ==
    IF tbl[name].registered
    THEN [tbl EXCEPT ![name].cli_type = IF cli # NoneVal THEN cli ELSE @,
                     ![name].working_dir = IF wd # NoneVal THEN wd ELSE @]
    ELSE [tbl EXCEPT ![name] = [registered |-> TRUE, cli_type |-> cli,
                                session_id |-> NoneVal, working_dir |-> wd]]

\* update_agent_cli: clear session_id from every other holder, then overwrite.
update_agent_cli(tbl, name, cli, sid, wd) ==
    IF ~tbl[name].registered THEN tbl
    ELSE [n \in DOMAIN tbl |->
            IF n = name
            THEN [tbl[n] EXCEPT !.cli_type = cli, !.session_id = sid, !.working_dir = wd]
            ELSE IF sid # NoneVal /\ tbl[n].session_id = sid
                 THEN [tbl[n] EXCEPT !.session_id = NoneVal]
                 ELSE tbl[n]]

enqueue_direct(q, e, from, to) ==
    [q EXCEPT ![e] = [status |-> "pending", response |-> NoneVal,
                      from_agent |-> from, to_agent |-> to]]

peek_pending_directs_any_agent(q, to) ==
    {e \in EntryIds : q[e].status = "pending"}

\* SELECT ... WHERE to_agent = ? AND status = 'pending'
peek_pending_directs(q, to) ==
    {e \in EntryIds : q[e].to_agent = to /\ q[e].status = "pending"}

\* UPDATE ... WHERE id = ?  (no condition on status)
mark_direct_delivered(q, e) ==
    IF q[e].status = "absent" THEN q ELSE [q EXCEPT ![e].status = "delivered"]

\* UPDATE ... WHERE id = ? AND status IN ('pending', 'delivered')
mark_direct_responded(q, e, r) ==
    IF q[e].status \in Open
    THEN [q EXCEPT ![e].status = "responded", ![e].response = r]
    ELSE q

mark_direct_expired(q, e) ==
    IF q[e].status \in Open THEN [q EXCEPT ![e].status = "expired"] ELSE q

mark_direct_fallback_skipped(q, e) == q

mark_direct_fallback(q, e) ==
    IF q[e].status \in Open THEN [q EXCEPT ![e].status = "fallback"] ELSE q

expire_stale_directs_any_status(q, old) ==
    [e \in EntryIds |->
        IF q[e].status # "absent" /\ e \in old
        THEN [q[e] EXCEPT !.status = "expired"]
        ELSE q[e]]

\* UPDATE ... WHERE status IN ('pending','delivered') AND created_at < cutoff
expire_stale_directs(q, old) ==
    [e \in EntryIds |->
        IF q[e].status \in Open /\ e \in old
        THEN [q[e] EXCEPT !.status = "expired"]
        ELSE q[e]]

\* ========================================================= talkto/tools.py

StaleEntries == {e \in EntryIds : timer[e].stale}

\* _inject_pending_directs: lazy expiry, peek, then mark each peeked entry.
inject_pending_directs(q, agent_name) ==
    LET swept == expire_stale_directs(q, StaleEntries)
        pending == peek_pending_directs(swept, agent_name)
    IN [e \in EntryIds |->
            IF e \in pending THEN mark_direct_delivered(swept, e)[e] ELSE swept[e]]

\* _inject_pending_directs: the entries written into the tool response
injected_directs(q, agent_name) ==
    peek_pending_directs(expire_stale_directs(q, StaleEntries), agent_name)

\* discover_session: an id found on disk, or nothing.
Discoverable == Opt(SessionIds)

\* tool_register
tool_register(name, cli, wd, found) ==
    /\ LET reg == register_agent(agents, name, cli, wd)
       IN agents' = IF cli # NoneVal /\ wd # NoneVal
                    THEN update_agent_cli(reg, name, cli, found, wd)
                    ELSE reg
    /\ UNCHANGED <<direct_queue, dm, chat, invoked, timer>>
    /\ UNCHANGED notQueue

\* _try_rescan_session
try_rescan_session(tbl, name, found) ==
    IF /\ tbl[name].cli_type # NoneVal /\ tbl[name].working_dir # NoneVal
       /\ tbl[name].session_id = NoneVal /\ found # NoneVal
    THEN update_agent_cli(tbl, name, tbl[name].cli_type, found, tbl[name].working_dir)
    ELSE tbl

\* tool_send_message and the other tools that end in _inject_pending_directs
tool_send_message(name, found) ==
    /\ agents[name].registered
    /\ agents' = try_rescan_session(agents, name, found)
    /\ direct_queue' = inject_pending_directs(direct_queue, name)
    /\ UNCHANGED <<dm, chat, invoked, timer>>
    /\ UNCHANGED notQueue

RespondCheck_any_caller(name, e) ==
    IF ~agents[name].registered THEN "error_not_registered"
    ELSE IF direct_queue[e].status = "absent" THEN "error_not_found"
    ELSE IF direct_queue[e].status \notin Open THEN "error_handled"
    ELSE "ok"

\* tool_respond_direct: the checks in the order of the code, then the reply
RespondCheck(name, e) ==
    IF ~agents[name].registered THEN "error_not_registered"
    ELSE IF direct_queue[e].status = "absent" THEN "error_not_found"
    ELSE IF direct_queue[e].to_agent # name THEN "error_not_addressee"
    ELSE IF direct_queue[e].status \notin Open THEN "error_handled"
    ELSE IF mark_direct_responded(direct_queue, e, NoneVal)[e].status # "responded"
         THEN "error_not_recorded"
    ELSE "ok"

tool_respond_direct(name, e, r) ==
    /\ direct_queue' = IF RespondCheck(name, e) \in {"ok", "error_not_recorded"}
                       THEN mark_direct_responded(direct_queue, e, r)
                       ELSE direct_queue
    /\ chat' = IF RespondCheck(name, e) = "ok"
               THEN [chat EXCEPT ![e].pull = @ + 1] ELSE chat
    /\ dm' = IF dm[e].pc = "invoking" /\ RespondCheck(name, e) \in {"ok", "error_handled"}
             THEN [dm EXCEPT ![e].pull_in_flight = TRUE] ELSE dm
    /\ UNCHANGED <<agents, invoked, timer>>
    /\ UNCHANGED notQueue

\* ======================================================== talkto/server.py

\* One direct request: where its handler stands and the locals it holds.
IdleDm == [pc |-> "idle", path |-> NoneVal, mode |-> NoneVal, post |-> FALSE,
           to |-> NoneVal, target |-> NoAgent, result |-> NoneVal,
           output |-> NoneVal, pull_in_flight |-> FALSE]
\* pull_in_flight: respond_direct was called for the entry during the fallback invocation

\* the handler returns: its locals are gone, its reply stays
Return(d, result, output) ==
    [IdleDm EXCEPT !.pc = "done", !.path = d.path, !.result = result,
                   !.output = output, !.pull_in_flight = d.pull_in_flight]

FreshEntry(e) == dm[e].pc = "idle" /\ \A o \in EntryIds : o < e => dm[o].pc # "idle"

\* BackendResult as the callers read it: ok, output, error, timed_out, cli_not_found;
\* "raised" is send_to_agent raising instead of returning.
Outcomes == {"ok_output", "ok_empty", "fail_output", "fail_error", "fail_silent",
             "timed_out", "cli_not_found", "raised"}
Ok(o) == o \in {"ok_output", "ok_empty"}
HasOutput(o) == o \in {"ok_output", "fail_output"}
HasError(o) == o \in {"fail_output", "fail_error"}

can_subprocess_session_only(target) ==
    target.cli_type # NoneVal /\ target.session_id # NoneVal

\* can_subprocess = target.cli_type and (target.session_id or target.working_dir)
can_subprocess(target) ==
    target.cli_type # NoneVal /\ (target.session_id # NoneVal \/ target.working_dir # NoneVal)

NeedsDiscovery(target) ==
    target.session_id = NoneVal /\ target.cli_type # NoneVal /\ target.working_dir # NoneVal

\* direct_message, from the call to the first sleep of the smart-pull wait
direct_message(e, sender, to) ==
    /\ FreshEntry(e)
    /\ agents[sender].registered
    /\ IF sender = to
       THEN /\ dm' = [dm EXCEPT ![e] = Return([IdleDm EXCEPT !.path = "mcp"],
                                              "error_self", NoneVal)]
            /\ UNCHANGED direct_queue
       ELSE IF ~agents[to].registered
       THEN /\ dm' = [dm EXCEPT ![e] = Return([IdleDm EXCEPT !.path = "mcp"],
                                              "error_not_found", NoneVal)]
            /\ UNCHANGED direct_queue
       ELSE /\ direct_queue' = enqueue_direct(direct_queue, e, sender, to)
            /\ dm' = [dm EXCEPT ![e] = [IdleDm EXCEPT !.pc = "polling", !.path = "mcp",
                                        !.mode = "auto", !.post = TRUE, !.to = to,
                                        !.target = agents[to]]]
    /\ UNCHANGED <<agents, chat, invoked, timer>>
    /\ UNCHANGED notQueue

\* the smart-pull wait of both handlers: a poll that finds the entry responded
smart_pull_responded(e) ==
    /\ dm[e].pc = "polling"
    /\ direct_queue[e].status = "responded"
    /\ dm' = [dm EXCEPT ![e] = Return(@, "smart_pull", direct_queue[e].response)]
    /\ UNCHANGED <<direct_queue, agents, chat, invoked, timer>>
    /\ UNCHANGED notQueue

\* direct_message, from the poll that ends the wait to the call of send_to_agent
direct_message_timeout(e, found) ==
    /\ dm[e].pc = "polling" /\ dm[e].path = "mcp"
    /\ timer[e].deadline
    /\ direct_queue[e].status # "responded"
    /\ IF ~can_subprocess(dm[e].target)
       THEN /\ direct_queue' = mark_direct_expired(direct_queue, e)
            /\ dm' = [dm EXCEPT ![e] = Return(@, "no_backend", NoneVal)]
            /\ UNCHANGED <<agents, invoked>>
       ELSE /\ agents' = IF NeedsDiscovery(dm[e].target) /\ found # NoneVal
                         THEN update_agent_cli(agents, dm[e].to, dm[e].target.cli_type,
                                               found, dm[e].target.working_dir)
                         ELSE agents
            /\ direct_queue' = mark_direct_fallback(direct_queue, e)
            /\ invoked' = [invoked EXCEPT ![e] = @ + 1]
            /\ dm' = [dm EXCEPT ![e].pc = "invoking",
                                ![e].target = IF NeedsDiscovery(dm[e].target) /\ found # NoneVal
                                              THEN agents'[dm[e].to] ELSE @]
    /\ UNCHANGED <<chat, timer>>
    /\ UNCHANGED notQueue

\* direct_message, from the return of send_to_agent to the end
direct_message_result(e, o) ==
    /\ dm[e].pc = "invoking" /\ dm[e].path = "mcp"
    /\ IF o = "raised" THEN
            /\ dm' = [dm EXCEPT ![e] = Return(@, "invoke_failed", NoneVal)]
            /\ UNCHANGED chat
       ELSE IF o = "timed_out" THEN
            /\ dm' = [dm EXCEPT ![e] = Return(@, "timed_out", NoneVal)]
            /\ UNCHANGED chat
       ELSE IF o = "cli_not_found" THEN
            /\ dm' = [dm EXCEPT ![e] = Return(@, "cli_not_found", NoneVal)]
            /\ UNCHANGED chat
       ELSE IF Ok(o) /\ HasOutput(o) THEN
            IF direct_queue[e].status = "responded"
            THEN /\ dm' = [dm EXCEPT ![e] = Return(@, "smart_pull", direct_queue[e].response)]
                 /\ UNCHANGED chat
            ELSE /\ chat' = [chat EXCEPT ![e].fallback = @ + 1]
                 /\ dm' = [dm EXCEPT ![e] = Return(@, "fallback", "backend_output")]
       ELSE IF HasError(o) THEN
            /\ dm' = [dm EXCEPT ![e] = Return(@, "failed", NoneVal)]
            /\ UNCHANGED chat
       ELSE /\ dm' = [dm EXCEPT ![e] = Return(@, "no_output", NoneVal)]
            /\ UNCHANGED chat
    /\ UNCHANGED <<direct_queue, agents, invoked, timer>>
    /\ UNCHANGED notQueue

\* api_direct, "BACKEND MANAGER MODE": the checks, the discovery, the call of send_to_agent
api_direct_invoke(e, d, found) ==
    IF d.target.cli_type = NoneVal
    THEN /\ dm' = [dm EXCEPT ![e] = Return(d, "error_no_cli_type", NoneVal)]
         /\ UNCHANGED <<agents, invoked>>
    ELSE IF d.target.session_id = NoneVal /\ d.target.working_dir = NoneVal
    THEN /\ dm' = [dm EXCEPT ![e] = Return(d, "error_no_session", NoneVal)]
         /\ UNCHANGED <<agents, invoked>>
    ELSE /\ agents' = IF NeedsDiscovery(d.target) /\ found # NoneVal
                      THEN update_agent_cli(agents, d.to, d.target.cli_type,
                                            found, d.target.working_dir)
                      ELSE agents
         /\ invoked' = [invoked EXCEPT ![e] = @ + 1]
         /\ dm' = [dm EXCEPT ![e] = [d EXCEPT !.pc = "invoking",
                                              !.target = IF NeedsDiscovery(d.target)
                                                            /\ found # NoneVal
                                                         THEN agents'[d.to] ELSE @]]

\* api_direct in mode auto or smart_pull, from the request to the first sleep
api_direct(e, agent_name, mode, post) ==
    /\ FreshEntry(e)
    /\ mode \in {"auto", "smart_pull"}
    /\ agents[agent_name].registered
    /\ direct_queue' = enqueue_direct(direct_queue, e, Yash, agent_name)
    /\ dm' = [dm EXCEPT ![e] = [IdleDm EXCEPT !.pc = "polling", !.path = "rest",
                                !.mode = mode, !.post = post, !.to = agent_name,
                                !.target = agents[agent_name]]]
    /\ UNCHANGED <<agents, chat, invoked, timer>>
    /\ UNCHANGED notQueue

\* api_direct in mode subprocess: no queue entry, straight to the backend manager
api_direct_subprocess(e, agent_name, post, found) ==
    /\ FreshEntry(e)
    /\ agents[agent_name].registered
    /\ api_direct_invoke(e, [IdleDm EXCEPT !.path = "rest", !.mode = "subprocess",
                                           !.post = post, !.to = agent_name,
                                           !.target = agents[agent_name]], found)
    /\ UNCHANGED <<direct_queue, chat, timer>>
    /\ UNCHANGED notQueue

\* api_direct, from the poll that ends the wait to the call of send_to_agent
api_direct_timeout(e, found) ==
    /\ dm[e].pc = "polling" /\ dm[e].path = "rest"
    /\ timer[e].deadline
    /\ direct_queue[e].status # "responded"
    /\ IF dm[e].mode = "smart_pull"
       THEN /\ dm' = [dm EXCEPT ![e] = Return(@, "not_responded", NoneVal)]
            /\ UNCHANGED <<direct_queue, agents, invoked>>
       ELSE /\ direct_queue' = mark_direct_fallback(direct_queue, e)
            /\ api_direct_invoke(e, dm[e], found)
    /\ UNCHANGED <<chat, timer>>
    /\ UNCHANGED notQueue

\* api_direct, from the return of send_to_agent to the end
api_direct_result(e, o) ==
    /\ dm[e].pc = "invoking" /\ dm[e].path = "rest"
    /\ IF o \in {"raised", "timed_out", "cli_not_found"}
       THEN /\ dm' = [dm EXCEPT ![e] = Return(@, o, NoneVal)]
            /\ UNCHANGED chat
       ELSE /\ chat' = IF dm[e].post /\ HasOutput(o)
                       THEN [chat EXCEPT ![e].fallback = @ + 1] ELSE chat
            /\ dm' = [dm EXCEPT ![e] = Return(@, "completed",
                                              IF HasOutput(o) THEN "backend_output"
                                              ELSE NoneVal)]
    /\ UNCHANGED <<direct_queue, agents, invoked, timer>>
    /\ UNCHANGED notQueue

\* api_update_agent
api_update_agent(name, cli, sid, wd, found) ==
    /\ agents[name].registered
    /\ agents' = update_agent_cli(agents, name, cli,
                                  IF cli # NoneVal /\ wd # NoneVal /\ found # NoneVal
                                  THEN found ELSE sid, wd)
    /\ UNCHANGED <<direct_queue, dm, chat, invoked, timer>>
    /\ UNCHANGED notQueue

\* ------------------------------------------------------------- wall clock
\* An auto-mode wait ends at most one poll after SMART_PULL_TIMEOUT seconds, long
\* before the entry reaches the expiry age of MAX_AGE_MINUTES minutes; in mode
\* smart_pull the wait is the caller's timeout, shorter or longer than that age.
WaitEndsBeforeExpiry(e) ==
    dm[e].mode = "auto" /\ SMART_PULL_TIMEOUT + poll_interval < MAX_AGE_MINUTES * 60

deadline_passes(e) ==
    /\ dm[e].pc = "polling" /\ ~timer[e].deadline
    /\ timer' = [timer EXCEPT ![e].deadline = TRUE]
    /\ UNCHANGED <<direct_queue, agents, dm, chat, invoked>>
    /\ UNCHANGED notQueue

entry_ages(e) ==
    /\ direct_queue[e].status # "absent" /\ ~timer[e].stale
    /\ ~(dm[e].pc = "polling" /\ WaitEndsBeforeExpiry(e))
    /\ timer' = [timer EXCEPT ![e].stale = TRUE]
    /\ UNCHANGED <<direct_queue, agents, dm, chat, invoked>>
    /\ UNCHANGED notQueue

\* ------------------------------------------------------------ the machine
QueueInit ==
    /\ direct_queue = [e \in EntryIds |-> NoRow]
    /\ agents = [n \in AgentNames |-> NoAgent]
    /\ dm = [e \in EntryIds |-> IdleDm]
    /\ chat = [e \in EntryIds |-> [pull |-> 0, fallback |-> 0]]
    /\ invoked = [e \in EntryIds |-> 0]
    /\ timer = [e \in EntryIds |-> [deadline |-> FALSE, stale |-> FALSE]]

QueueNext ==
    \/ \E n \in AgentNames, c \in Opt(CliTypes), w \in Opt(WorkingDirs), f \in Discoverable :
            tool_register(n, c, w, f)
    \/ \E n \in AgentNames, f \in Discoverable : tool_send_message(n, f)
    \/ \E n \in AgentNames, e \in EntryIds, r \in ResponseTexts : tool_respond_direct(n, e, r)
    \/ \E e \in 1..MaxRequests, s \in AgentNames, t \in AgentNames : direct_message(e, s, t)
    \/ \E e \in EntryIds : smart_pull_responded(e)
    \/ \E e \in EntryIds, f \in Discoverable : direct_message_timeout(e, f)
    \/ \E e \in EntryIds, o \in Outcomes : direct_message_result(e, o)
    \/ \E e \in 1..MaxRequests, n \in AgentNames, m \in {"auto", "smart_pull"}, p \in BOOLEAN :
            api_direct(e, n, m, p)
    \/ \E e \in 1..MaxRequests, n \in AgentNames, p \in BOOLEAN, f \in Discoverable :
            api_direct_subprocess(e, n, p, f)
    \/ \E e \in EntryIds, f \in Discoverable : api_direct_timeout(e, f)
    \/ \E e \in EntryIds, o \in Outcomes : api_direct_result(e, o)
    \/ \E n \in AgentNames, c \in Opt(CliTypes), s \in Opt(SessionIds), w \in Opt(WorkingDirs),
          f \in Discoverable : api_update_agent(n, c, s, w, f)
    \/ \E e \in EntryIds : deadline_passes(e)
    \/ \E e \in EntryIds : entry_ages(e)


\* ====================================================== talkto/backends.py

Requesters == 1..MaxStartRequests
NoRequest == 0

\* OpenCodeServerBackend.__init__
NewBackend == [status |-> "stopped", process |-> "none", client |-> FALSE, port_seen |-> NoneVal]

IdleReq == [pc |-> "idle", waited |-> 0, elapsed |-> 0, result |-> NoneVal, joined |-> NoRequest]

\* the start requests that are inside OpenCodeServerBackend.start
StartPcs == {"probing", "health_get", "health_sleep", "stopping"}
Starting == {r \in Requesters : req[r].pc \in StartPcs}

\* property status: a running backend whose process has exited reads as error
status(b) == IF b.status = "running" /\ b.process = "dead" THEN "error" ELSE b.status

BackendRunning ==
    opencode_backend # NoRequest /\ status(backends[opencode_backend]) = "running"

Healthy_child_only == port = "child"

\* GET /global/health answers healthy: an OpenCode serve listens on the port
Healthy == port \in {"opencode", "child"}

InFlight_ignored == FALSE

\* if self._opencode_starting
InFlight == opencode_starting

\* how a call of _ensure_opencode_started ends when it raises
StartRaised == {"raised", "port_conflict", "cli_not_found", "died", "not_healthy",
                "health_error", "wait_timed_out"}

\* _ensure_opencode_started's except and finally, after start() raised from request r
StartFailed(r, result) ==
    /\ opencode_backend' = NoRequest
    /\ opencode_starting' = FALSE
    /\ req' = [req EXCEPT ![r].pc = "done", ![r].result = result]

\* _ensure_opencode_started after start() returned: start_watchdog, then finally
StartReturned(r, result) ==
    /\ opencode_starting' = FALSE
    /\ req' = [req EXCEPT ![r].pc = "done", ![r].result = result]
    /\ UNCHANGED opencode_backend

\* _ensure_opencode_started, from the call to its first await; with start() up to
\* the port probe, the missing executable, or the spawn and the first health request
ensure_opencode_started(r) ==
    /\ req[r].pc = "idle"
    /\ LET joined == IF Starting = {} THEN NoRequest ELSE CHOOSE a \in Starting : TRUE
           called == [req EXCEPT ![r].joined = joined]
       IN IF InFlight
          THEN /\ req' = [called EXCEPT ![r].pc = "waiting"]
               /\ UNCHANGED <<opencode_starting, opencode_backend, backends, spawned>>
          ELSE IF BackendRunning
          THEN /\ req' = [called EXCEPT ![r].pc = "done", ![r].result = "already_running"]
               /\ UNCHANGED <<opencode_starting, opencode_backend, backends, spawned>>
          ELSE IF port # "free"
          THEN /\ opencode_starting' = TRUE
               /\ opencode_backend' = r
               /\ backends' = [backends EXCEPT ![r] = [NewBackend EXCEPT !.status = "starting",
                                                                       !.client = TRUE,
                                                                       !.port_seen = "in_use"]]
               /\ req' = [called EXCEPT ![r].pc = "probing"]
               /\ UNCHANGED spawned
          ELSE IF ~cli_found
          THEN /\ backends' = [backends EXCEPT ![r] = [NewBackend EXCEPT !.status = "error",
                                                                       !.port_seen = "free"]]
               /\ opencode_backend' = NoRequest
               /\ opencode_starting' = FALSE
               /\ req' = [called EXCEPT ![r].pc = "done", ![r].result = "cli_not_found"]
               /\ UNCHANGED spawned
          ELSE /\ opencode_starting' = TRUE
               /\ opencode_backend' = r
               /\ backends' = [backends EXCEPT ![r] = [status |-> "starting", process |-> "alive",
                                                       client |-> TRUE, port_seen |-> "free"]]
               /\ spawned' = [spawned EXCEPT ![r] = @ + 1]
               /\ req' = [called EXCEPT ![r].pc = "health_get"]
    /\ UNCHANGED <<port, cli_found>>
    /\ UNCHANGED notBackend

\* start(): the answer of the health probe of a port found in use
start_probe_answer(r) ==
    /\ req[r].pc = "probing"
    /\ IF ~backends[r].client
       THEN /\ StartFailed(r, "raised")
            /\ UNCHANGED backends
       ELSE IF Healthy
       THEN /\ backends' = [backends EXCEPT ![r].status = "running"]
            /\ StartReturned(r, "reused")
       ELSE /\ backends' = [backends EXCEPT ![r].status = "error", ![r].client = FALSE]
            /\ StartFailed(r, "port_conflict")
    /\ UNCHANGED <<port, cli_found, spawned>>
    /\ UNCHANGED notBackend

\* start(): the answer of one health request of the startup loop
start_health_answer(r) ==
    /\ req[r].pc = "health_get"
    /\ IF ~backends[r].client
       THEN /\ StartFailed(r, "raised")
            /\ UNCHANGED backends
       ELSE IF Healthy
       THEN /\ backends' = [backends EXCEPT ![r].status = "running"]
            /\ StartReturned(r, "started")
       ELSE /\ req' = [req EXCEPT ![r].pc = "health_sleep"]
            /\ UNCHANGED <<backends, opencode_starting, opencode_backend>>
    /\ UNCHANGED <<port, cli_found, spawned>>
    /\ UNCHANGED notBackend

\* start(): one health request of the startup loop reaches the child, which has
\* bound the port, and ends with an exception that is neither ConnectError nor
\* ConnectTimeout (a read timeout, a broken connection, a body that is not
\* JSON); it leaves start() as it is, with the status and the process untouched
start_health_raises(r) ==
    /\ req[r].pc = "health_get"
    /\ backends[r].client
    /\ backends[r].process = "listening"
    /\ StartFailed(r, "health_error")
    /\ UNCHANGED <<backends, port, cli_found, spawned>>
    /\ UNCHANGED notBackend

\* start(): the sleep of the startup loop ends; the loop test, the exit check
start_health_slept(r) ==
    /\ req[r].pc = "health_sleep"
    /\ IF ~backends[r].client
       THEN /\ StartFailed(r, "raised")
            /\ UNCHANGED backends
       ELSE IF req[r].elapsed + 1 >= max_wait
       THEN /\ backends' = [backends EXCEPT ![r].status = "error"]
            /\ req' = [req EXCEPT ![r].pc = "stopping", ![r].elapsed = @ + 1]
            /\ UNCHANGED <<opencode_starting, opencode_backend>>
       ELSE IF backends[r].process = "dead"
       THEN /\ backends' = [backends EXCEPT ![r].status = "error"]
            /\ StartFailed(r, "died")
       ELSE /\ req' = [req EXCEPT ![r].pc = "health_get", ![r].elapsed = @ + 1]
            /\ UNCHANGED <<backends, opencode_starting, opencode_backend>>
    /\ UNCHANGED <<port, cli_found, spawned>>
    /\ UNCHANGED notBackend

\* stop(): the client is closed, the process handle dropped, the status stopped
Stopped(b) == [b EXCEPT !.status = "stopped", !.process = "none", !.client = FALSE]

PortsAfterStop_kills_owner(b, p) == {"free"}

\* stop(): who listens on the port afterwards. Its own child, if still running,
\* is terminated; a reused OpenCode serve gets POST /instance/dispose (only
\* with a client and status running) and may or may not exit; any other
\* owner of the port is not touched
PortsAfterStop(b, p) ==
    IF b.process = "listening" THEN {"free"}
    ELSE IF b.client /\ b.status = "running" /\ p = "opencode" THEN {"opencode", "free"}
    ELSE {p}

\* start() after max_wait: stop() closes the client and kills the process, then the raise
start_timed_out(r) ==
    /\ req[r].pc = "stopping"
    /\ backends' = [backends EXCEPT ![r] = Stopped(@)]
    /\ port' \in PortsAfterStop(backends[r], port)
    /\ StartFailed(r, "not_healthy")
    /\ UNCHANGED <<cli_found, spawned>>
    /\ UNCHANGED notBackend

\* _ensure_opencode_started: one round of the wait for a start in flight
ensure_wait_round(r) ==
    /\ req[r].pc = "waiting"
    /\ IF BackendRunning
       THEN req' = [req EXCEPT ![r].pc = "done", ![r].result = "joined"]
       ELSE IF req[r].waited + 1 >= start_wait_rounds
       THEN req' = [req EXCEPT ![r].pc = "done", ![r].result = "wait_timed_out",
                               ![r].waited = @ + 1]
       ELSE req' = [req EXCEPT ![r].waited = @ + 1]
    /\ UNCHANGED <<opencode_starting, opencode_backend, backends, port, cli_found, spawned>>
    /\ UNCHANGED notBackend

\* the spawned opencode serve binds the port
child_listens(r) ==
    /\ backends[r].process = "alive" /\ port = "free"
    /\ port' = "child"
    /\ backends' = [backends EXCEPT ![r].process = "listening"]
    /\ UNCHANGED <<opencode_starting, opencode_backend, req, cli_found, spawned>>
    /\ UNCHANGED notBackend

\* the spawned opencode serve exits
child_exits(r) ==
    /\ backends[r].process \in {"alive", "listening"}
    /\ backends' = [backends EXCEPT ![r].process = "dead"]
    /\ port' = IF backends[r].process = "listening" THEN "free" ELSE port
    /\ UNCHANGED <<opencode_starting, opencode_backend, req, cli_found, spawned>>
    /\ UNCHANGED notBackend

\* BackendManager.__init__, in an environment: the port free, held by a healthy
\* OpenCode serve or by some other program; the executable installed or not
BackendInit ==
    /\ opencode_starting = FALSE
    /\ opencode_backend = NoRequest
    /\ backends = [r \in Requesters |-> NewBackend]
    /\ req = [r \in Requesters |-> IdleReq]
    /\ port \in {"free", "opencode", "other"}
    /\ cli_found \in BOOLEAN
    /\ spawned = [r \in Requesters |-> 0]

BackendAtRest == BackendInit /\ port = "free" /\ cli_found

\* what a start in flight does next, and what its child does
BackendSteps ==
    \/ \E r \in Requesters : start_probe_answer(r)
    \/ \E r \in Requesters : start_health_answer(r)
    \/ \E r \in Requesters : start_health_raises(r)
    \/ \E r \in Requesters : start_health_slept(r)
    \/ \E r \in Requesters : start_timed_out(r)
    \/ \E r \in Requesters : ensure_wait_round(r)
    \/ \E r \in Requesters : child_listens(r)
    \/ \E r \in Requesters : child_exits(r)

BackendNext ==
    \/ \E r \in Requesters : ensure_opencode_started(r)
    \/ BackendSteps

\* is_available
is_available(b) == b.client /\ Healthy

\* stop_opencode: stop() of the manager's backend, then the manager forgets it
stop_opencode ==
    /\ opencode_backend # NoRequest
    /\ backends' = [backends EXCEPT ![opencode_backend] = Stopped(@)]
    /\ port' \in PortsAfterStop(backends[opencode_backend], port)
    /\ opencode_backend' = NoRequest
    /\ UNCHANGED <<opencode_starting, req, cli_found, spawned>>
    /\ UNCHANGED notBackend

\* ----------------------------------------------------------- the watchdog

\* BackendManager.__init__: no watchdog task yet, _restart_count = 0. Of one
\* cycle the record keeps the backend in hand (the one whose health was asked,
\* then the one stop() was called on), what was found, and the start request
\* that stands for the watchdog's own call of _ensure_opencode_started
IdleWatchdog == [pc |-> "sleeping", backend |-> NoRequest, r |-> NoRequest, found |-> NoneVal,
                 restart_count |-> 0]

\* start_watchdog has been called: some start() returned
WatchdogStarted ==
    \E r \in Requesters : req[r].pc = "done" /\ req[r].result \in {"started", "reused"}

\* the start requests not made yet
IdleSlots == {r \in Requesters : req[r].pc = "idle"}

\* _watchdog_restart between self._opencode_backend = None and the call of
\* _ensure_opencode_started: no await, so nothing else runs in between
WatchdogGap == watchdog.pc = "restarting" /\ req[watchdog.r].pc = "idle"

\* _watchdog_loop: the cycle is over, back to the sleep
CycleEnds(w, found) ==
    [w EXCEPT !.pc = "sleeping", !.backend = NoRequest, !.r = NoRequest, !.found = found]

watchdog_never_skips == FALSE

\* _watchdog_restart: if self._opencode_starting: return
watchdog_skips == opencode_starting

\* start_opencode, or send_to_agent for an opencode agent: a request calls
\* _ensure_opencode_started
start_opencode(r) ==
    /\ ~WatchdogGap
    /\ ensure_opencode_started(r)

\* _watchdog_loop: the sleep ends with a backend to watch, is_available is called on it
watchdog_wakes ==
    /\ watchdog.pc = "sleeping"
    /\ WatchdogStarted
    /\ opencode_backend # NoRequest
    /\ watchdog' = [watchdog EXCEPT !.pc = "checking", !.backend = opencode_backend,
                                    !.found = NoneVal]
    /\ UNCHANGED backendVars
    /\ UNCHANGED notWatchdog

\* _watchdog_loop: is_available answers. Healthy ends the cycle. Unhealthy: the
\* warning reads self._opencode_backend.status (an AttributeError when the
\* manager has no backend any more, caught by the loop), then _watchdog_restart
\* returns when a start is in flight, and calls stop() otherwise
watchdog_checked ==
    /\ watchdog.pc = "checking"
    /\ IF is_available(backends[watchdog.backend])
       THEN /\ watchdog' = CycleEnds(watchdog, "healthy")
            /\ UNCHANGED backends
       ELSE IF opencode_backend = NoRequest
       THEN /\ watchdog' = CycleEnds(watchdog, "gone")
            /\ UNCHANGED backends
       ELSE /\ backends' = [backends EXCEPT ![opencode_backend].status = status(backends[opencode_backend])]
            /\ IF watchdog_skips
               THEN watchdog' = CycleEnds(watchdog, "starting")
               ELSE watchdog' = [watchdog EXCEPT !.pc = "stopping", !.found = "unhealthy",
                                                 !.backend = opencode_backend]
    /\ UNCHANGED <<opencode_starting, opencode_backend, req, port, cli_found, spawned>>
    /\ UNCHANGED notWatchdog

\* _watchdog_restart: stop() returns, self._opencode_backend = None
watchdog_stopped ==
    /\ watchdog.pc = "stopping"
    /\ IdleSlots # {}
    /\ backends' = [backends EXCEPT ![watchdog.backend] = Stopped(@)]
    /\ port' \in PortsAfterStop(backends[watchdog.backend], port)
    /\ opencode_backend' = NoRequest
    /\ watchdog' = [watchdog EXCEPT !.pc = "restarting", !.r = CHOOSE r \in IdleSlots : TRUE]
    /\ UNCHANGED <<opencode_starting, req, cli_found, spawned>>
    /\ UNCHANGED notWatchdog

\* _watchdog_restart: the call of _ensure_opencode_started
watchdog_ensure ==
    /\ WatchdogGap
    /\ ensure_opencode_started(watchdog.r)

\* _watchdog_restart: _ensure_opencode_started returned, so _restart_count += 1,
\* or raised, which is logged
watchdog_restarted ==
    /\ watchdog.pc = "restarting"
    /\ req[watchdog.r].pc = "done"
    /\ watchdog' = [CycleEnds(watchdog, watchdog.found)
                        EXCEPT !.restart_count = IF req[watchdog.r].result \in StartRaised
                                                 THEN @ ELSE @ + 1]
    /\ UNCHANGED backendVars
    /\ UNCHANGED notWatchdog

WatchdogAtRest == watchdog = IdleWatchdog

\* starts, manual stops and the watchdog
SuperviseNext ==
    \/ \E r \in Requesters : start_opencode(r)
    \/ BackendSteps
    \/ stop_opencode
    \/ watchdog_wakes
    \/ watchdog_checked
    \/ watchdog_stopped
    \/ watchdog_ensure
    \/ watchdog_restarted

\* ================================================ backend/app (agents)

CREATOR_NAME == "the_creator"
AppAgentNames == {CREATOR_NAME, "yara", "nibex"}
AgentTypes == {"claude", "opencode", "system"}
ServerUrls == {"http://127.0.0.1:4096"}
AttemptIds == 1..MaxAttempts

NoAppAgent == [exists |-> FALSE, agent_type |-> NoneVal,
               server_url |-> NoneVal, provider_session_id |-> NoneVal]

has_credentials(row) == row.server_url # NoneVal /\ row.provider_session_id # NoneVal

\* ------------------------------------------- services/agent_discovery.py
\* session ids claimed by agents other than name (all agents when name is None)
claimed_by_others(name) ==
    {app_agents[n].provider_session_id :
        n \in {m \in AppAgentNames : /\ m # name
                                     /\ app_agents[m].exists
                                     /\ app_agents[m].provider_session_id # NoneVal}}

NoDiscovery == [server_url |-> NoneVal, session_id |-> NoneVal]

\* auto_discover: no server; a server and no session; a session found by pid or
\* tty (any session), or by process scan or REST (none of the excluded ones)
auto_discover(has_pid, exclude) ==
    {NoDiscovery}
    \cup {[server_url |-> u, session_id |-> NoneVal] : u \in ServerUrls}
    \cup {[server_url |-> u, session_id |-> sid] :
            u \in ServerUrls, sid \in (IF has_pid THEN SessionIds ELSE SessionIds \ exclude)}

\* --------------------------------------------- services/agent_invoker.py
is_session_alive_optimistic(session_id, server_url) ==
    IF server_url = NoneVal THEN TRUE
    ELSE IF opencode.state # "ok" THEN TRUE
    ELSE session_id \in opencode.ids

\* _is_session_alive: no server_url or an answer other than 200 count as alive,
\* a request that fails counts as dead
is_session_alive(session_id, server_url) ==
    IF server_url = NoneVal THEN TRUE
    ELSE IF opencode.state = "down" THEN FALSE
    ELSE IF opencode.state = "http_error" THEN TRUE
    ELSE session_id \in opencode.ids

is_pid_alive(name) == os_session[name] = "live"

is_agent_ghost_system_unchecked(name) ==
    IF ~app_agents[name].exists THEN FALSE
    ELSE IF /\ has_credentials(app_agents[name])
            /\ is_session_alive(app_agents[name].provider_session_id,
                                app_agents[name].server_url)
         THEN FALSE
    ELSE IF os_session[name] = "none" THEN TRUE
    ELSE ~is_pid_alive(name)

\* is_agent_ghost
is_agent_ghost(name) ==
    IF ~app_agents[name].exists THEN FALSE
    ELSE IF app_agents[name].agent_type = "system" THEN FALSE
    ELSE IF /\ has_credentials(app_agents[name])
            /\ is_session_alive(app_agents[name].provider_session_id,
                                app_agents[name].server_url)
         THEN FALSE
    ELSE IF os_session[name] = "none" THEN TRUE
    ELSE ~is_pid_alive(name)

cleared_session_only(row) == [row EXCEPT !.provider_session_id = NoneVal]

\* _clear_stale_credentials: the two assignments
cleared(row) == [row EXCEPT !.server_url = NoneVal, !.provider_session_id = NoneVal]

\* ------------------------------------------------------- api/agents.py
\* _fetch_opencode_sessions
fetch_opencode_sessions == IF opencode.state = "ok" THEN opencode.ids ELSE {}

\* _compute_ghost
compute_ghost(name, sessions) ==
    IF app_agents[name].agent_type = "system" THEN FALSE
    ELSE IF has_credentials(app_agents[name])
         THEN app_agents[name].provider_session_id \notin sessions
    ELSE IF os_session[name] = "none" THEN TRUE
    ELSE ~is_pid_alive(name)

\* _refresh_ghost_cache
refresh_ghost_cache ==
    /\ ghost_cache' = [n \in AppAgentNames |->
                          IF ~app_agents[n].exists THEN "absent"
                          ELSE IF compute_ghost(n, fetch_opencode_sessions) THEN "ghost"
                          ELSE "not_ghost"]
    /\ UNCHANGED <<app_agents, os_session, session_rows, opencode, ghost_checked, attempts>>
    /\ UNCHANGED notApp

\* ---- _refresh_ghost_cache step by step: one agent at a time, one request
\* ---- per server_url, and the exception that ends the run

\* the servers agents can hold credentials on
RefreshUrls == ServerUrls \cup {"http://127.0.0.1:4097"}
\* a server_url that is not a key of the dict opencode_sessions
NotFetched == [known |-> FALSE, ids |-> {}]

IdleRefresh == [pc |-> "idle", agents |-> <<>>, i |-> 1, url |-> NoneVal,
                opencode_sessions |-> [u \in RefreshUrls |-> NotFetched],
                new_cache |-> [n \in AppAgentNames |-> "absent"],
                requests |-> [u \in RefreshUrls |-> 0]]

\* list(result.scalars().all()): the rows of table agents, in some order
AgentLists ==
    LET present == {n \in AppAgentNames : app_agents[n].exists}
    IN {q \in [1..Cardinality(present) -> present] :
            \A n \in present : \E k \in DOMAIN q : q[k] = n}

\* what _fetch_opencode_sessions returns for an answer of the server
fetched_sessions(state, ids) == IF state = "ok" THEN ids ELSE {}

needs_fetch_always(sessions, url) == TRUE

\* "if agent.server_url not in opencode_sessions"
needs_fetch(sessions, url) == ~sessions[url].known

Cached(c, name, ghost) == [c EXCEPT ![name] = IF ghost THEN "ghost" ELSE "not_ghost"]

\* opencode_sessions = {}, the agents are read, new_cache = {}
refresh_starts(found) ==
    /\ refresh.pc \in {"idle", "published", "failed"}
    /\ refresh' = [IdleRefresh EXCEPT !.pc = "loop", !.agents = found]
    /\ UNCHANGED appVars
    /\ UNCHANGED notRefresh

\* one round of "for agent in agents" up to its first await: a system agent
\* and an agent whose server was asked already are computed at once, else the
\* session list of the server is requested
compute_ghost_called ==
    /\ refresh.pc = "loop"
    /\ refresh.i <= Len(refresh.agents)
    /\ LET name == refresh.agents[refresh.i]
           row == app_agents[name]
       IN IF row.agent_type # "system" /\ has_credentials(row)
          THEN IF needs_fetch(refresh.opencode_sessions, row.server_url)
               THEN refresh' = [refresh EXCEPT !.pc = "fetching", !.url = row.server_url,
                                               !.requests[row.server_url] = @ + 1]
               ELSE refresh' = [refresh EXCEPT
                        !.new_cache = Cached(@, name,
                            compute_ghost(name, refresh.opencode_sessions[row.server_url].ids)),
                        !.i = @ + 1]
          ELSE IF row.agent_type = "system"
          THEN refresh' = [refresh EXCEPT !.new_cache = Cached(@, name, FALSE), !.i = @ + 1]
          ELSE refresh' = [refresh EXCEPT !.pc = "session_query"]
    /\ UNCHANGED appVars
    /\ UNCHANGED notRefresh

\* GET {server_url}/session is over: the answer, or the empty set, is kept in
\* opencode_sessions and the agent is computed from it
fetch_answer(state, ids) ==
    /\ refresh.pc = "fetching"
    /\ LET name == refresh.agents[refresh.i]
           sessions == fetched_sessions(state, ids)
       IN refresh' = [refresh EXCEPT
                        !.pc = "loop", !.url = NoneVal,
                        !.opencode_sessions[refresh.url] = [known |-> TRUE, ids |-> sessions],
                        !.new_cache = Cached(@, name, compute_ghost(name, sessions)),
                        !.i = @ + 1]
    /\ UNCHANGED appVars
    /\ UNCHANGED notRefresh

\* the query for the active Session row of an agent without credentials
\* answers
session_query_answer ==
    /\ refresh.pc = "session_query"
    /\ LET name == refresh.agents[refresh.i]
       IN refresh' = [refresh EXCEPT !.pc = "loop",
                                     !.new_cache = Cached(@, name, compute_ghost(name, {})),
                                     !.i = @ + 1]
    /\ UNCHANGED appVars
    /\ UNCHANGED notRefresh

\* the same query raises: _compute_ghost fails, "except Exception" of
\* _refresh_ghost_cache logs it and the run is over
compute_ghost_raises ==
    /\ refresh.pc = "session_query"
    /\ refresh' = [refresh EXCEPT !.pc = "failed"]
    /\ UNCHANGED appVars
    /\ UNCHANGED notRefresh

\* after the loop: _ghost_cache.clear(); _ghost_cache.update(new_cache)
cache_published ==
    /\ refresh.pc = "loop"
    /\ refresh.i > Len(refresh.agents)
    /\ ghost_cache' = refresh.new_cache
    /\ refresh' = [refresh EXCEPT !.pc = "published"]
    /\ UNCHANGED <<app_agents, os_session, session_rows, opencode, ghost_checked, attempts>>
    /\ UNCHANGED notRefresh

RefreshAtRest == refresh = IdleRefresh

\* a caller of is_agent_ghost (the message router) gets its answer
ghost_check(name) ==
    /\ ghost_checked' = <<name, is_agent_ghost(name)>>
    /\ UNCHANGED <<app_agents, os_session, session_rows, opencode, ghost_cache, attempts>>
    /\ UNCHANGED notApp

\* -------------------------------------------- services/agent_registry.py
\* a write to the credentials of name disturbs the attempts that cleared them
\* and are still discovering
Disturbed(att, name) ==
    [k \in AttemptIds |->
        IF att[k].target = name /\ att[k].pc \in {"discover_read", "discovering"}
        THEN [att[k] EXCEPT !.disturbed = TRUE]
        ELSE att[k]]

\* the Session rows of one agent
NoSessions == [active |-> 0, last_heartbeat |-> NoneVal]

Deactivated_keeps_older(rows) == rows

\* UPDATE sessions SET is_active = 0 WHERE agent_id = ... AND is_active = 1
Deactivated(rows) == [active |-> 0, last_heartbeat |-> NoneVal]

\* a new Session row with is_active = 1 and last_heartbeat = started_at
NewSession(rows) == [active |-> rows.active + 1, last_heartbeat |-> "started"]

\* register_agent of agent_registry.py: a new agent under a fresh name
registry_register_agent(name, agent_type, server_url, provider_session_id, found) ==
    /\ ~app_agents[name].exists
    /\ server_url = NoneVal => provider_session_id = NoneVal
    /\ LET url == IF server_url # NoneVal THEN server_url ELSE found.server_url
           sid == IF server_url # NoneVal THEN provider_session_id ELSE found.session_id
           type == IF server_url = NoneVal /\ found.server_url # NoneVal
                   THEN "opencode" ELSE agent_type
       IN app_agents' = [app_agents EXCEPT ![name] =
                            [exists |-> TRUE, agent_type |-> type,
                             server_url |-> url, provider_session_id |-> sid]]
    /\ os_session' = [os_session EXCEPT ![name] = "live"]
    /\ session_rows' = [session_rows EXCEPT ![name] = NewSession(@)]
    /\ UNCHANGED <<opencode, ghost_cache, ghost_checked, attempts>>
    /\ UNCHANGED notApp

\* connect_agent, what it writes: auto_discover is only asked without a
\* server_url, and only a discovery that is not None replaces both arguments
ConnectWrites(name, server_url, provider_session_id, found) ==
    /\ app_agents[name].exists
    /\ LET discovered == server_url = NoneVal /\ found # NoDiscovery
           url == IF discovered THEN found.server_url ELSE server_url
           sid == IF discovered THEN found.session_id ELSE provider_session_id
       IN /\ app_agents' = [app_agents EXCEPT
                ![name].server_url = IF url # NoneVal THEN url ELSE @,
                ![name].provider_session_id = IF sid # NoneVal THEN sid ELSE @]
          /\ attempts' = IF url # NoneVal \/ sid # NoneVal
                         THEN Disturbed(attempts, name) ELSE attempts
    /\ os_session' = [os_session EXCEPT ![name] = "live"]
    /\ session_rows' = [session_rows EXCEPT ![name] = NewSession(Deactivated(@))]
    /\ UNCHANGED <<opencode, ghost_cache, ghost_checked>>

\* connect_agent
connect_agent(name, server_url, provider_session_id, found) ==
    /\ ConnectWrites(name, server_url, provider_session_id, found)
    /\ UNCHANGED notApp

NoCall == [name |-> NoneVal, server_url |-> NoneVal, provider_session_id |-> NoneVal,
           found |-> NoDiscovery, before |-> NoAppAgent]

\* connect_agent, with the call kept for inspection: the arguments, the answer
\* of auto_discover and the row as it was read
connect_agent_called(name, server_url, provider_session_id, found) ==
    /\ ConnectWrites(name, server_url, provider_session_id, found)
    /\ connected' = [name |-> name, server_url |-> server_url,
                     provider_session_id |-> provider_session_id,
                     found |-> found, before |-> app_agents[name]]
    /\ UNCHANGED notConnect

ConnectAtRest == connected = NoCall

\* disconnect_agent
disconnect_agent(name) ==
    /\ app_agents[name].exists
    /\ os_session' = [os_session EXCEPT ![name] = "none"]
    /\ session_rows' = [session_rows EXCEPT ![name] = Deactivated(@)]
    /\ UNCHANGED <<app_agents, opencode, ghost_cache, ghost_checked, attempts>>
    /\ UNCHANGED notApp

\* heartbeat_agent: last_heartbeat of the active Session rows is renewed
heartbeat_agent(name) ==
    /\ app_agents[name].exists
    /\ session_rows' = [session_rows EXCEPT ![name] =
                        IF @.active > 0 THEN [@ EXCEPT !.last_heartbeat = "renewed"] ELSE @]
    /\ UNCHANGED <<app_agents, os_session, opencode, ghost_cache, ghost_checked, attempts>>
    /\ UNCHANGED notApp

\* ------------------------------------------------------- the environment
\* the process behind the agent's active session exits
pid_exits(name) ==
    /\ os_session[name] = "live"
    /\ os_session' = [os_session EXCEPT ![name] = "dead"]
    /\ UNCHANGED <<app_agents, session_rows, opencode, ghost_cache, ghost_checked, attempts>>
    /\ UNCHANGED notApp

\* the OpenCode server goes down, answers with an error, or lists other sessions
opencode_changes(state, ids) ==
    /\ state # "ok" => ids = {}
    /\ opencode' = [state |-> state, ids |-> ids]
    /\ opencode' # opencode
    /\ UNCHANGED <<app_agents, os_session, session_rows, ghost_cache, ghost_checked, attempts>>
    /\ UNCHANGED notApp

\* ------------------------------- services/agent_invoker.py: one attempt
IdleAttempt == [pc |-> "idle", target |-> NoneVal, server_url |-> NoneVal,
                session_id |-> NoneVal, stale |-> FALSE, has_pid |-> FALSE, exclude |-> {},
                disturbed |-> FALSE, probe |-> NoneVal, result |-> NoneVal, sent |-> 0]

\* invoke_agent_async returns: its locals are gone, its outcome stays
Returned(att, result, posts) ==
    [IdleAttempt EXCEPT !.pc = "done", !.target = att.target, !.stale = att.stale,
                        !.disturbed = att.disturbed, !.result = result,
                        !.sent = att.sent + posts]

\* _get_agent_invocation_info: the agent row is read into locals
Started(name) ==
    IF ~app_agents[name].exists
    THEN [IdleAttempt EXCEPT !.pc = "done", !.target = name, !.result = "not_found"]
    ELSE [IdleAttempt EXCEPT
            !.pc = IF has_credentials(app_agents[name]) THEN "checking"
                   ELSE "discover_read",
            !.target = name,
            !.server_url = app_agents[name].server_url,
            !.session_id = app_agents[name].provider_session_id]

\* invoke_agent_async with _get_agent_invocation_info, up to the first request
invoke_agent_async(k, name) ==
    /\ attempts[k].pc = "idle"
    /\ \A j \in AttemptIds : j < k => attempts[j].pc # "idle"
    /\ attempts' = [attempts EXCEPT ![k] = Started(name)]
    /\ UNCHANGED <<app_agents, os_session, session_rows, opencode, ghost_cache, ghost_checked>>
    /\ UNCHANGED notApp

\* _get_agent_invocation_info: the answer of _is_session_alive
liveness_answer(k) ==
    /\ attempts[k].pc = "checking"
    /\ attempts' = [attempts EXCEPT ![k] =
          IF is_session_alive(attempts[k].session_id, attempts[k].server_url)
          THEN [@ EXCEPT !.pc = "sending"]
          ELSE [@ EXCEPT !.pc = "clearing", !.stale = TRUE,
                         !.probe = IF opencode.state = "down" THEN "unreachable"
                                   ELSE "not_listed"]]
    /\ UNCHANGED <<app_agents, os_session, session_rows, opencode, ghost_cache, ghost_checked>>
    /\ UNCHANGED notApp

\* _clear_stale_credentials, then the locals are dropped
clear_stale_credentials(k) ==
    /\ attempts[k].pc = "clearing"
    /\ app_agents' = [app_agents EXCEPT ![attempts[k].target] = cleared(@)]
    /\ attempts' = [Disturbed(attempts, attempts[k].target) EXCEPT
                        ![k].pc = "discover_read", ![k].server_url = NoneVal,
                        ![k].session_id = NoneVal]
    /\ UNCHANGED <<os_session, session_rows, opencode, ghost_cache, ghost_checked>>
    /\ UNCHANGED notApp

\* _try_auto_discover: the reads of the active session and of the claimed ids
try_auto_discover_read(k) ==
    /\ attempts[k].pc = "discover_read"
    /\ attempts' = [attempts EXCEPT ![k].pc = "discovering",
                        ![k].has_pid = os_session[attempts[k].target] # "none",
                        ![k].exclude = claimed_by_others(attempts[k].target)]
    /\ UNCHANGED <<app_agents, os_session, session_rows, opencode, ghost_cache, ghost_checked>>
    /\ UNCHANGED notApp

\* _try_auto_discover: the answer of auto_discover, persisted when complete
try_auto_discover_answer(k, found) ==
    /\ attempts[k].pc = "discovering"
    /\ found \in auto_discover(attempts[k].has_pid, attempts[k].exclude)
    /\ IF found.server_url = NoneVal \/ found.session_id = NoneVal
       THEN /\ attempts' = [attempts EXCEPT ![k] = Returned(@, "not_invocable", 0)]
            /\ UNCHANGED app_agents
       ELSE /\ app_agents' = [app_agents EXCEPT
                    ![attempts[k].target].server_url = found.server_url,
                    ![attempts[k].target].provider_session_id = found.session_id]
            /\ attempts' = [Disturbed(attempts, attempts[k].target) EXCEPT
                                ![k].pc = "sending", ![k].server_url = found.server_url,
                                ![k].session_id = found.session_id,
                                ![k].disturbed = attempts[k].disturbed]
    /\ UNCHANGED <<os_session, session_rows, opencode, ghost_cache, ghost_checked>>
    /\ UNCHANGED notApp

\* invoke_agent_async: the POST to prompt_async and its answer
prompt_async_answer(k, ok) ==
    /\ attempts[k].pc = "sending"
    /\ attempts' = [attempts EXCEPT ![k] =
                        Returned(@, IF ok THEN "sent" ELSE "send_failed", 1)]
    /\ UNCHANGED <<app_agents, os_session, session_rows, opencode, ghost_cache, ghost_checked>>
    /\ UNCHANGED notApp

\* init_db: the creator is seeded as the one system agent
AppInit ==
    /\ app_agents = [n \in AppAgentNames |->
                        IF n = CREATOR_NAME
                        THEN [NoAppAgent EXCEPT !.exists = TRUE, !.agent_type = "system"]
                        ELSE NoAppAgent]
    /\ os_session = [n \in AppAgentNames |-> "none"]
    /\ session_rows = [n \in AppAgentNames |-> NoSessions]
    /\ opencode = [state |-> "ok", ids |-> {}]
    /\ ghost_cache = [n \in AppAgentNames |-> "absent"]
    /\ ghost_checked = <<>>
    /\ attempts = [k \in AttemptIds |-> IdleAttempt]

Supplied == {<<NoneVal, NoneVal>>} \cup (ServerUrls \X Opt(SessionIds))
OpencodeAnswers == {<<"down", {}>>, <<"http_error", {}>>} \cup ({"ok"} \X SUBSET SessionIds)

\* the rows a refresh can find: the creator, and agents registered with or
\* without credentials on either server, with or without a live process
RefreshRows ==
    {NoAppAgent} \cup
    [exists : {TRUE}, agent_type : {"claude"},
     server_url : Opt(RefreshUrls), provider_session_id : Opt(SessionIds)]

AgentsRegistered ==
    /\ app_agents \in [AppAgentNames -> RefreshRows \cup
                            {[NoAppAgent EXCEPT !.exists = TRUE, !.agent_type = "system"]}]
    /\ \A n \in AppAgentNames : app_agents[n].agent_type = "system" <=> n = CREATOR_NAME
    /\ os_session \in [AppAgentNames -> {"none", "live", "dead"}]
    /\ os_session[CREATOR_NAME] = "none"
    /\ session_rows = [n \in AppAgentNames |-> NoSessions]
    /\ opencode = [state |-> "ok", ids |-> {}]
    /\ ghost_cache = [n \in AppAgentNames |-> "absent"]
    /\ ghost_checked = <<>>
    /\ attempts = [k \in AttemptIds |-> IdleAttempt]

RefreshNext ==
    \/ \E found \in AgentLists : refresh_starts(found)
    \/ compute_ghost_called
    \/ \E a \in OpencodeAnswers : fetch_answer(a[1], a[2])
    \/ session_query_answer
    \/ compute_ghost_raises
    \/ cache_published

\* what auto_discover can return with a server on either port: None, a server
\* and no session, a server and a session
AnyDiscovery ==
    {NoDiscovery} \cup [server_url : RefreshUrls, session_id : Opt(SessionIds)]

\* reconnections of registered agents, with any arguments and any discovery
ConnectNext ==
    \/ \E n \in {"yara", "nibex"}, u \in Opt(RefreshUrls), sid \in Opt(SessionIds),
          f \in AnyDiscovery : connect_agent_called(n, u, sid, f)
    \/ \E n \in {"yara", "nibex"} : disconnect_agent(n)

\* ghost detection: the creator and one registered agent
GhostNext ==
    \/ \E t \in AgentTypes, c \in Supplied, f \in auto_discover(TRUE, claimed_by_others(NoneVal)) :
            registry_register_agent("nibex", t, c[1], c[2], f)
    \/ \E n \in {CREATOR_NAME, "nibex"}, c \in Supplied :
          \E f \in auto_discover(TRUE, claimed_by_others(n)) : connect_agent(n, c[1], c[2], f)
    \/ \E n \in {CREATOR_NAME, "nibex"} : disconnect_agent(n)
    \/ \E n \in {CREATOR_NAME, "nibex"} : pid_exits(n)
    \/ \E a \in OpencodeAnswers : opencode_changes(a[1], a[2])
    \/ refresh_ghost_cache
    \/ \E n \in {CREATOR_NAME, "nibex"} : ghost_check(n)

\* invocation: two registered agents and the attempts to invoke one of them
InvokeNext ==
    \/ \E n \in {"yara", "nibex"}, t \in {"claude"}, c \in Supplied,
          f \in auto_discover(TRUE, claimed_by_others(NoneVal)) :
            registry_register_agent(n, t, c[1], c[2], f)
    \/ \E n \in {"yara", "nibex"}, c \in Supplied :
          \E f \in auto_discover(TRUE, claimed_by_others(n)) : connect_agent(n, c[1], c[2], f)
    \/ \E n \in {"yara", "nibex"} : disconnect_agent(n)
    \/ \E a \in OpencodeAnswers : opencode_changes(a[1], a[2])
    \/ \E k \in AttemptIds : invoke_agent_async(k, "nibex")
    \/ \E k \in AttemptIds : liveness_answer(k)
    \/ \E k \in AttemptIds : clear_stale_credentials(k)
    \/ \E k \in AttemptIds : try_auto_discover_read(k)
    \/ \E k \in AttemptIds, f \in auto_discover(TRUE, {}) : try_auto_discover_answer(k, f)
    \/ \E k \in AttemptIds, ok \in BOOLEAN : prompt_async_answer(k, ok)

\* the registry calls of three agents: register, connect, disconnect, heartbeat
RegistryNames == {CREATOR_NAME, "yara", "nibex"}

RegistryNext ==
    \/ \E n \in {"yara", "nibex"}, c \in Supplied,
          f \in auto_discover(TRUE, claimed_by_others(NoneVal)) :
            registry_register_agent(n, "claude", c[1], c[2], f)
    \/ \E n \in RegistryNames, c \in Supplied :
          \E f \in auto_discover(TRUE, claimed_by_others(n)) : connect_agent(n, c[1], c[2], f)
    \/ \E n \in RegistryNames : disconnect_agent(n)
    \/ \E n \in RegistryNames : heartbeat_agent(n)
    \/ \E n \in RegistryNames : pid_exits(n)

\* ================================= services/agent_discovery.py: one run

\* the sessions a discovery strategy can come up with
DiscoveredIds == {"ses_abc", "ses_def"}

\* the strategies in the order auto_discover names them
Strategies == <<"pid", "tty", "scan", "rest">>

IdleDiscovery == [pc |-> "idle", runs |-> 0, pid |-> FALSE, tty |-> FALSE, exclude |-> {},
                  server_url |-> NoneVal, calls |-> <<>>, found_by |-> NoneVal,
                  result |-> NoneVal]

\* return of auto_discover: None, or the dict with server_url and session_id
DiscoveryReturns(d, result) == [d EXCEPT !.pc = "done", !.result = result]

\* the call of one strategy
Invoke(d, strategy) == [d EXCEPT !.pc = strategy, !.calls = Append(@, strategy)]

\* the code after strategy number i gave no session: the next strategy whose
\* condition holds (pid, tty: only with the argument given), or the incomplete dict
AfterStrategy(d, i) ==
    IF i < 1 /\ d.pid THEN Invoke(d, "pid")
    ELSE IF i < 2 /\ d.tty THEN Invoke(d, "tty")
    ELSE IF i < 3 THEN Invoke(d, "scan")
    ELSE IF i < 4 THEN Invoke(d, "rest")
    ELSE DiscoveryReturns(d, [server_url |-> d.server_url, session_id |-> NoneVal])

StrategyAnswer_falls_through(d, i, sid) ==
    IF sid # NoneVal /\ i = 4
    THEN DiscoveryReturns([d EXCEPT !.found_by = Strategies[i]],
                          [server_url |-> d.server_url, session_id |-> sid])
    ELSE AfterStrategy(IF sid # NoneVal /\ d.found_by = NoneVal
                       THEN [d EXCEPT !.found_by = Strategies[i]] ELSE d, i)

\* the code after strategy number i answered: "if session_id: return {...}"
StrategyAnswer(d, i, sid) ==
    IF sid # NoneVal
    THEN DiscoveryReturns([d EXCEPT !.found_by = Strategies[i]],
                          [server_url |-> d.server_url, session_id |-> sid])
    ELSE AfterStrategy(d, i)

\* auto_discover is called; it awaits discover_opencode_server
auto_discover_called(pid, tty, exclude) ==
    /\ discovery.pc \in {"idle", "done"}
    /\ discovery.runs < MaxRuns
    /\ discovery' = [IdleDiscovery EXCEPT !.pc = "server", !.runs = discovery.runs + 1,
                        !.pid = pid, !.tty = tty, !.exclude = exclude]
    /\ UNCHANGED notDisc

\* discover_opencode_server answers: no server ends the run
discover_opencode_server(url) ==
    /\ discovery.pc = "server"
    /\ discovery' = IF url = NoneVal THEN DiscoveryReturns(discovery, NoneVal)
                    ELSE AfterStrategy([discovery EXCEPT !.server_url = url], 0)
    /\ UNCHANGED notDisc

\* strategy 1 answers: any session id, the exclusion set is not passed to it
discover_session_by_pid(sid) ==
    /\ discovery.pc = "pid"
    /\ discovery' = StrategyAnswer(discovery, 1, sid)
    /\ UNCHANGED notDisc

\* strategy 2 answers: any session id, the exclusion set is not passed to it
discover_session_by_tty(sid) ==
    /\ discovery.pc = "tty"
    /\ discovery' = StrategyAnswer(discovery, 2, sid)
    /\ UNCHANGED notDisc

\* strategy 3 answers: a session that is not excluded
discover_session_by_process_scan(sid) ==
    /\ discovery.pc = "scan"
    /\ sid \notin discovery.exclude
    /\ discovery' = StrategyAnswer(discovery, 3, sid)
    /\ UNCHANGED notDisc

\* strategy 4 answers: a session that is not excluded
discover_opencode_session(sid) ==
    /\ discovery.pc = "rest"
    /\ sid \notin discovery.exclude
    /\ discovery' = StrategyAnswer(discovery, 4, sid)
    /\ UNCHANGED notDisc

DiscoveryInit == discovery = IdleDiscovery

DiscoveryNext ==
    \/ \E pid \in BOOLEAN, tty \in BOOLEAN, exclude \in SUBSET DiscoveredIds :
            auto_discover_called(pid, tty, exclude)
    \/ \E url \in Opt(ServerUrls) : discover_opencode_server(url)
    \/ \E sid \in Opt(DiscoveredIds) : discover_session_by_pid(sid)
    \/ \E sid \in Opt(DiscoveredIds) : discover_session_by_tty(sid)
    \/ \E sid \in Opt(DiscoveredIds) : discover_session_by_process_scan(sid)
    \/ \E sid \in Opt(DiscoveredIds) : discover_opencode_session(sid)

\* ============== the invocation task of a message (DM target and mentions)
\* services/agent_invoker.py invoke_for_message (a human's message, REST) and
\* services/message_router.py _invoke_agents_for_agent_message (an agent's, MCP)

\* the sender of the message and the names it can address
Sender == "yara"
RouteNames == AppAgentNames
RouteSlot == 1

RECURSIVE SeqsUpTo(_, _)
SeqsUpTo(S, n) ==
    IF n = 0 THEN {<<>>}
    ELSE SeqsUpTo(S, n - 1) \cup {Append(q, x) : q \in SeqsUpTo(S, n - 1), x \in S}

\* the mentions list of a message: any names, in any order, repeated or not
MentionLists == SeqsUpTo(RouteNames, MaxMentions)

IdleRoute == [pc |-> "idle", path |-> NoneVal, dm_target |-> NoneVal, mentions |-> <<>>,
              i |-> 1, invoked |-> {}, reached |-> <<>>, raised |-> FALSE]

\* agent_typing_event(name, channel_id, is_typing, error)
agent_typing_event(name, is_typing, error) ==
    [name |-> name, is_typing |-> is_typing, error |-> error]

is_self_unchecked(sender_name, target) == FALSE

\* "target == sender_name", "mentioned == sender_name"
is_self(sender_name, target) == target = sender_name

\* only _invoke_agents_for_agent_message asks is_agent_ghost before invoking
ghost_skipped(path, name) == path = "agent" /\ is_agent_ghost(name)

\* a recipient is reached: what it was taken for, and whether it is invoked
Reach(r, name, via, called) ==
    [r EXCEPT !.reached = Append(@, [name |-> name, via |-> via,
                                     ghost |-> is_agent_ghost(name), called |-> called])]

\* the task is created by send_message (REST) or send_agent_message (MCP)
message_sent(path, dm_target, mentions) ==
    /\ route.pc = "idle"
    /\ route' = [IdleRoute EXCEPT !.pc = "dm", !.path = path, !.dm_target = dm_target,
                                  !.mentions = mentions]
    /\ UNCHANGED <<events, appVars>>
    /\ UNCHANGED notRoute

\* the DM branch: not a DM channel, the sender itself, a ghost (agent
\* messages only), or typing starts and invoke_agent_async is called
invoke_dm_target ==
    /\ route.pc = "dm"
    /\ LET target == route.dm_target IN
       IF target = NoneVal \/ is_self(Sender, target)
       THEN /\ route' = [route EXCEPT !.pc = "mentions"]
            /\ UNCHANGED <<events, attempts>>
       ELSE IF ghost_skipped(route.path, target)
       THEN /\ route' = [Reach(route, target, "dm", FALSE) EXCEPT !.pc = "mentions"]
            /\ UNCHANGED <<events, attempts>>
       ELSE /\ route' = [Reach(route, target, "dm", TRUE) EXCEPT !.pc = "dm_wait"]
            /\ events' = Append(events, agent_typing_event(target, TRUE, FALSE))
            /\ attempts' = [attempts EXCEPT ![RouteSlot] = Started(target)]
    /\ UNCHANGED <<app_agents, os_session, session_rows, opencode, ghost_cache, ghost_checked>>
    /\ UNCHANGED notRoute

\* invoke_agent_async is over: ok adds the name to invoked and stops typing,
\* not ok stops typing with "is not reachable", an exception ends the task in
\* _invoke_with_error_handling, which logs it
Answered(r, name, result, next) ==
    IF result = "raised" THEN [r EXCEPT !.pc = "done", !.raised = TRUE]
    ELSE IF result = "sent" THEN [r EXCEPT !.pc = next, !.invoked = @ \cup {name}]
    ELSE [r EXCEPT !.pc = next]

TypingStops(ev, name, result) ==
    IF result = "raised" THEN ev
    ELSE Append(ev, agent_typing_event(name, FALSE, result # "sent"))

invoke_dm_answer ==
    /\ route.pc = "dm_wait"
    /\ attempts[RouteSlot].pc = "done"
    /\ route' = Answered(route, route.dm_target, attempts[RouteSlot].result, "mentions")
    /\ events' = TypingStops(events, route.dm_target, attempts[RouteSlot].result)
    /\ UNCHANGED appVars
    /\ UNCHANGED notRoute

\* the mentions loop: a name already invoked or the sender is passed over, a
\* ghost is passed over (agent messages only), else typing starts and
\* invoke_agent_async is called
invoke_mention ==
    /\ route.pc = "mentions"
    /\ IF route.i > Len(route.mentions)
       THEN /\ route' = [route EXCEPT !.pc = "done"]
            /\ UNCHANGED <<events, attempts>>
       ELSE LET mentioned == route.mentions[route.i] IN
            IF mentioned \in route.invoked \/ is_self(Sender, mentioned)
            THEN /\ route' = [route EXCEPT !.i = @ + 1]
                 /\ UNCHANGED <<events, attempts>>
            ELSE IF ghost_skipped(route.path, mentioned)
            THEN /\ route' = [Reach(route, mentioned, "mention", FALSE) EXCEPT !.i = @ + 1]
                 /\ UNCHANGED <<events, attempts>>
            ELSE /\ route' = [Reach(route, mentioned, "mention", TRUE) EXCEPT
                                    !.pc = "mention_wait"]
                 /\ events' = Append(events, agent_typing_event(mentioned, TRUE, FALSE))
                 /\ attempts' = [attempts EXCEPT ![RouteSlot] = Started(mentioned)]
    /\ UNCHANGED <<app_agents, os_session, session_rows, opencode, ghost_cache, ghost_checked>>
    /\ UNCHANGED notRoute

invoke_mention_answer ==
    /\ route.pc = "mention_wait"
    /\ attempts[RouteSlot].pc = "done"
    /\ LET mentioned == route.mentions[route.i]
           after == Answered(route, mentioned, attempts[RouteSlot].result, "mentions")
       IN /\ route' = IF after.pc = "done" THEN after ELSE [after EXCEPT !.i = @ + 1]
          /\ events' = TypingStops(events, mentioned, attempts[RouteSlot].result)
    /\ UNCHANGED appVars
    /\ UNCHANGED notRoute

\* a database session of the invocation path fails (async_session blocks of
\* _clear_stale_credentials and _try_auto_discover have no except clause)
attempt_raises(k) ==
    /\ attempts[k].pc \in {"clearing", "discover_read"}
    /\ attempts' = [attempts EXCEPT ![k] = Returned(@, "raised", 0)]
    /\ UNCHANGED <<app_agents, os_session, session_rows, opencode, ghost_cache, ghost_checked>>
    /\ UNCHANGED notApp

RouteInit ==
    /\ route = IdleRoute
    /\ events = <<>>

\* one message at a time; the recipient it can invoke registers, loses its
\* process, and the OpenCode server changes, at any moment
RouteNext ==
    \/ \E path \in {"human", "agent"}, t \in Opt(RouteNames), m \in MentionLists :
            message_sent(path, t, m)
    \/ invoke_dm_target
    \/ invoke_dm_answer
    \/ invoke_mention
    \/ invoke_mention_answer
    \/ liveness_answer(RouteSlot)
    \/ clear_stale_credentials(RouteSlot)
    \/ try_auto_discover_read(RouteSlot)
    \/ \E f \in auto_discover(TRUE, {}) : try_auto_discover_answer(RouteSlot, f)
    \/ \E ok \in BOOLEAN : prompt_async_answer(RouteSlot, ok)
    \/ attempt_raises(RouteSlot)
    \/ \E c \in Supplied, f \in auto_discover(TRUE, claimed_by_others(NoneVal)) :
            registry_register_agent("nibex", "claude", c[1], c[2], f)
    \/ pid_exits("nibex")
    \/ \E a \in OpencodeAnswers : opencode_changes(a[1], a[2])

\* ========= services/agent_discovery.py: discover_session_by_process_scan
\* paths are strings, modelled as sequences of characters

\* the deepest path, in components
MaxDepth == 2

\* directory names, one a proper prefix of the other
DirNames == {<<"a">>, <<"a", "b">>}

RECURSIVE Joined(_)
\* "/" + name for every component, in order
Joined(comps) ==
    IF comps = <<>> THEN <<>> ELSE <<"/">> \o Head(comps) \o Joined(Tail(comps))

\* absolute paths of up to MaxDepth components, written with or without a
\* trailing slash; the root is "/"
AbsolutePaths ==
    {Joined(comps) \o tail : comps \in SeqsUpTo(DirNames, MaxDepth), tail \in {<<>>, <<"/">>}}
        \ {<<>>}

\* what _lookup_session_directory returns: a directory, or None (no database,
\* no row, an sqlite error) written as the empty string
LookedUp == AbsolutePaths \cup {<<>>}

RECURSIVE rstrip(_)
\* str.rstrip("/")
rstrip(str) ==
    IF str # <<>> /\ str[Len(str)] = "/" THEN rstrip(SubSeq(str, 1, Len(str) - 1)) ELSE str

\* str.startswith(prefix)
startswith(str, prefix) ==
    Len(prefix) <= Len(str) /\ SubSeq(str, 1, Len(prefix)) = prefix

path_matches_prefix(directory, norm_path) ==
    \/ directory = norm_path
    \/ startswith(directory, norm_path)
    \/ startswith(norm_path, directory)

\* "Match: exact, parent, or child path"
path_matches(directory, norm_path) ==
    \/ directory = norm_path
    \/ startswith(directory, norm_path \o <<"/">>)
    \/ startswith(norm_path, directory \o <<"/">>)

RECURSIVE process_scan(_, _, _, _)
\* the loop "for session_id in active_sessions" and the return None after it
process_scan(active_sessions, directories, project_path, exclude) ==
    IF active_sessions = <<>> THEN NoneVal
    ELSE LET session_id == Head(active_sessions)
             directory == directories[session_id]
             rest == process_scan(Tail(active_sessions), directories, project_path, exclude)
         IN IF session_id \in exclude THEN rest
            ELSE IF directory = <<>> THEN rest
            ELSE IF path_matches(rstrip(directory), rstrip(project_path)) THEN session_id
            ELSE rest

IdleScan == [pc |-> "idle", active_sessions |-> <<>>,
             directories |-> [sid \in DiscoveredIds |-> <<>>],
             project_path |-> <<"/">>, exclude |-> {}, result |-> NoneVal]

\* discover_session_by_process_scan from its call to its return
process_scan_returns ==
    /\ scan.pc = "called"
    /\ scan' = [scan EXCEPT !.pc = "returned",
                            !.result = process_scan(scan.active_sessions, scan.directories,
                                                     scan.project_path, scan.exclude)]
    /\ UNCHANGED notScan

ScanAtRest == scan = IdleScan

\* a call: the session ids ps lists (in its order, an id possibly twice), the
\* directory the OpenCode database holds for each, the project path and the
\* exclusion set
ScanCalled ==
    scan \in [pc : {"called"}, active_sessions : SeqsUpTo(DiscoveredIds, Cardinality(DiscoveredIds)),
              directories : [DiscoveredIds -> LookedUp],
              project_path : AbsolutePaths, exclude : SUBSET DiscoveredIds,
              result : {NoneVal}]

ScanNext == process_scan_returns

\* ======================= talkto/backends.py: a prompt to an opencode agent

\* the start request made by _send_via_opencode
PromptStarter == 1

\* what a POST /session/{id}/message can end with: a status, or an exception
PostAnswers == {"200", "404", "http_error", "timeout", "connect_error", "other_error"}

IdlePrompt == [pc |-> "idle", agent_session |-> NoneVal, backend |-> NoRequest,
               session_id |-> NoneVal, first |-> NoneVal, recreated |-> NoneVal,
               second |-> NoneVal, posts |-> 0, creates |-> 0, aborts |-> 0,
               subprocess |-> 0, sp_result |-> NoneVal, result |-> NoneVal]

raise_for_status_lenient(a) == a = "http_error"

\* resp.raise_for_status()
raise_for_status(a) == a \in {"404", "http_error"}

\* if not self._client or self._status != "running"
NotRunning(b) == ~backends[b].client \/ backends[b].status # "running"

\* _send_via_subprocess is called
Fallback(p) == [p EXCEPT !.pc = "subprocess", !.subprocess = @ + 1]

\* _send_via_opencode after send_prompt returned: a changed session id is
\* persisted, a failure that is no timeout goes to the subprocess
SendPromptReturned(p, sp_result) ==
    LET q == [p EXCEPT !.sp_result = sp_result,
                       !.agent_session = IF p.session_id # p.agent_session
                                         THEN p.session_id ELSE @]
    IN IF sp_result = "failed" THEN Fallback(q)
       ELSE [q EXCEPT !.pc = "done", !.result = sp_result]

\* an exception leaves send_prompt and _send_via_opencode
PromptRaised(p) == [p EXCEPT !.pc = "done", !.result = "raised"]

\* send_prompt after httpx.TimeoutException: the abort request, if it can be made
TimedOut(p) ==
    IF backends[p.backend].client
    THEN [p EXCEPT !.pc = "aborting", !.aborts = @ + 1]
    ELSE SendPromptReturned(p, "timed_out")

\* send_prompt, from the call to the first POST of the prompt
SendPrompt(p) ==
    IF NotRunning(p.backend)
    THEN Fallback([p EXCEPT !.sp_result = "failed"])
    ELSE [p EXCEPT !.pc = "posting", !.posts = @ + 1]

\* _send_via_opencode once the backend runs: the agent's session, or a new one
AfterStart(p) ==
    LET q == [p EXCEPT !.backend = opencode_backend, !.session_id = p.agent_session]
    IN IF q.agent_session # NoneVal THEN SendPrompt(q)
       ELSE IF NotRunning(q.backend) THEN Fallback(q)
       ELSE [q EXCEPT !.pc = "creating"]

\* _send_via_opencode, from the call to its first await
send_via_opencode ==
    /\ prompt.pc = "idle"
    /\ prompt' = IF opencode_backend = NoRequest
                    \/ status(backends[opencode_backend]) # "running"
                 THEN [prompt EXCEPT !.pc = "ensuring"]
                 ELSE AfterStart(prompt)
    /\ UNCHANGED backendVars
    /\ UNCHANGED notPrompt

\* _send_via_opencode calls _ensure_opencode_started
send_via_opencode_ensure ==
    /\ prompt.pc = "ensuring"
    /\ ensure_opencode_started(PromptStarter)

\* _send_via_opencode after _ensure_opencode_started returned or raised
send_via_opencode_started ==
    /\ prompt.pc = "ensuring" /\ req[PromptStarter].pc = "done"
    /\ prompt' = IF req[PromptStarter].result \in StartRaised THEN Fallback(prompt)
                 ELSE IF opencode_backend = NoRequest THEN PromptRaised(prompt)
                 ELSE AfterStart(prompt)
    /\ UNCHANGED backendVars
    /\ UNCHANGED notPrompt

\* create_session, called for an agent without a backend session: the answer
create_session_answer(sid) ==
    /\ prompt.pc = "creating"
    /\ ~backends[prompt.backend].client => sid = NoneVal
    /\ prompt' = IF sid = NoneVal THEN Fallback(prompt)
                 ELSE SendPrompt([prompt EXCEPT !.agent_session = sid, !.session_id = sid])
    /\ UNCHANGED backendVars
    /\ UNCHANGED notPrompt

\* what follows a POST of the prompt that did not answer 404
PostAnswered(p, a) ==
    IF raise_for_status(a) THEN SendPromptReturned(p, "failed")
    ELSE IF a = "timeout" THEN TimedOut(p)
    ELSE IF a = "connect_error" THEN SendPromptReturned(p, "failed")
    ELSE IF a = "other_error" THEN PromptRaised(p)
    ELSE SendPromptReturned(p, "ok")

StatusAfterPost_starting(a) ==
    IF a = "connect_error"
    THEN [backends EXCEPT ![prompt.backend].status = "starting"]
    ELSE backends

\* except httpx.ConnectError: self._status = "error"
StatusAfterPost(a) ==
    IF a = "connect_error"
    THEN [backends EXCEPT ![prompt.backend].status = "error"]
    ELSE backends

\* send_prompt: the answer to the first POST of the prompt
post_answer(a) ==
    /\ prompt.pc = "posting"
    /\ LET p == [prompt EXCEPT !.first = a]
       IN IF a = "404"
          THEN /\ prompt' = IF NotRunning(p.backend)
                            THEN SendPromptReturned([p EXCEPT !.recreated = "failed"], "failed")
                            ELSE [p EXCEPT !.pc = "recreating", !.creates = @ + 1]
               /\ UNCHANGED backends
          ELSE /\ prompt' = PostAnswered(p, a)
               /\ backends' = StatusAfterPost(a)
    /\ UNCHANGED <<opencode_starting, opencode_backend, req, port, cli_found, spawned>>
    /\ UNCHANGED notPrompt

\* send_prompt after a 404: the answer of create_session, then the second POST
recreate_answer(sid) ==
    /\ prompt.pc = "recreating"
    /\ ~backends[prompt.backend].client => sid = NoneVal
    /\ prompt' = IF sid = NoneVal
                 THEN SendPromptReturned([prompt EXCEPT !.recreated = "failed"], "failed")
                 ELSE [prompt EXCEPT !.recreated = "created", !.session_id = sid,
                                     !.pc = "reposting", !.posts = @ + 1]
    /\ UNCHANGED backendVars
    /\ UNCHANGED notPrompt

\* send_prompt: the answer to the second POST of the prompt
repost_answer(a) ==
    /\ prompt.pc = "reposting"
    /\ prompt' = PostAnswered([prompt EXCEPT !.second = a], a)
    /\ backends' = StatusAfterPost(a)
    /\ UNCHANGED <<opencode_starting, opencode_backend, req, port, cli_found, spawned>>
    /\ UNCHANGED notPrompt

\* send_prompt: the abort request ended one way or the other
abort_answer ==
    /\ prompt.pc = "aborting"
    /\ prompt' = SendPromptReturned(prompt, "timed_out")
    /\ UNCHANGED backendVars
    /\ UNCHANGED notPrompt

\* _send_via_subprocess returned
subprocess_answer ==
    /\ prompt.pc = "subprocess"
    /\ prompt' = [prompt EXCEPT !.pc = "done", !.result = "subprocess"]
    /\ UNCHANGED backendVars
    /\ UNCHANGED notPrompt

\* the manager stops the backend; not between two statements of the prompt
\* handler that no await separates
manager_stops ==
    /\ ~(prompt.pc = "ensuring" /\ req[PromptStarter].pc \in {"idle", "done"})
    /\ stop_opencode

\* an opencode agent with or without a backend session
PromptAtRest == prompt = IdlePrompt
PromptInit == prompt \in {[IdlePrompt EXCEPT !.agent_session = s] : s \in {NoneVal, "ses_old"}}

PromptNext ==
    \/ send_via_opencode
    \/ send_via_opencode_ensure
    \/ start_probe_answer(PromptStarter)
    \/ start_health_answer(PromptStarter)
    \/ start_health_raises(PromptStarter)
    \/ start_health_slept(PromptStarter)
    \/ start_timed_out(PromptStarter)
    \/ child_listens(PromptStarter)
    \/ child_exits(PromptStarter)
    \/ send_via_opencode_started
    \/ \E sid \in {NoneVal, "ses_new"} : create_session_answer(sid)
    \/ \E a \in PostAnswers : post_answer(a)
    \/ \E sid \in {NoneVal, "ses_new"} : recreate_answer(sid)
    \/ \E a \in PostAnswers : repost_answer(a)
    \/ abort_answer
    \/ subprocess_answer
    \/ manager_stops

\* ===== background tasks: talkto/backends.py (watchdog), backend/app/api/agents.py
\* ===== (liveness), backend/app/main.py (lifespan), services/agent_invoker.py

MaxCycles == 2
MaxTasks == 3
LoopNames == {"watchdog", "liveness"}
TaskIds == 1..MaxTasks

\* no task created yet: _watchdog_task = None, _liveness_task = None
NoLoop == [task |-> "none", cancelled |-> FALSE, at |-> "sleep", cycles |-> 0]
NoTask == [origin |-> NoneVal, state |-> "none", callback |-> FALSE]

\* asyncio.create_task(self._watchdog_loop()): the loop starts with its sleep;
\* asyncio.create_task(_liveness_loop()): the loop starts with a refresh
CreatedLoop(l) == [NoLoop EXCEPT !.task = "pending", !.at = IF l = "watchdog" THEN "sleep" ELSE "work"]

\* start_watchdog (from _ensure_opencode_started) and start_liveness_task (from
\* lifespan): a task is created unless one exists that is not done
start_loop(l) ==
    /\ shutdown[l] = "serving"
    /\ loops[l].task \in {"none", "done"}
    /\ loops' = [loops EXCEPT ![l] = [CreatedLoop(l) EXCEPT !.cycles = loops[l].cycles]]
    /\ UNCHANGED <<shutdown, tasks, background_tasks>>
    /\ UNCHANGED notTasks

\* _watchdog_loop, _liveness_loop: the event loop resumes the task at its await,
\* with no cancellation requested: the sleep ends and a cycle begins, or the
\* cycle ends and the sleep begins
loop_resumes(l) ==
    /\ loops[l].task = "pending" /\ ~loops[l].cancelled
    /\ IF loops[l].at = "sleep"
       THEN /\ loops[l].cycles < MaxCycles
            /\ loops' = [loops EXCEPT ![l].at = "work", ![l].cycles = @ + 1]
       ELSE loops' = [loops EXCEPT ![l].at = "sleep"]
    /\ UNCHANGED <<shutdown, tasks, background_tasks>>
    /\ UNCHANGED notTasks

\* the event loop resumes a task whose cancellation was requested: CancelledError
\* is raised at its await, no except clause of the loops keeps it running
\* (_watchdog_loop breaks; except Exception does not catch it), the task is done
loop_cancelled(l) ==
    /\ loops[l].task = "pending" /\ loops[l].cancelled
    /\ loops' = [loops EXCEPT ![l].task = "done"]
    /\ UNCHANGED <<shutdown, tasks, background_tasks>>
    /\ UNCHANGED notTasks

\* BackendManager.shutdown: stop_watchdog cancels the task and awaits it
stop_watchdog ==
    /\ shutdown["watchdog"] = "serving"
    /\ IF loops["watchdog"].task = "pending"
       THEN /\ loops' = [loops EXCEPT !["watchdog"].cancelled = TRUE]
            /\ shutdown' = [shutdown EXCEPT !["watchdog"] = "awaiting"]
       ELSE /\ loops' = [loops EXCEPT !["watchdog"].task = "none"]
            /\ shutdown' = [shutdown EXCEPT !["watchdog"] = "returned"]
    /\ UNCHANGED <<tasks, background_tasks>>
    /\ UNCHANGED notTasks

\* stop_watchdog: await self._watchdog_task ends, self._watchdog_task = None;
\* shutdown goes on to stop the backend and returns
stop_watchdog_returns ==
    /\ shutdown["watchdog"] = "awaiting"
    /\ loops["watchdog"].task = "done"
    /\ loops' = [loops EXCEPT !["watchdog"].task = "none"]
    /\ shutdown' = [shutdown EXCEPT !["watchdog"] = "returned"]
    /\ UNCHANGED <<tasks, background_tasks>>
    /\ UNCHANGED notTasks

\* lifespan after the yield: stop_liveness_task cancels the task and drops the
\* reference (_liveness_task = None) without awaiting it; ws_manager.close_all
\* is awaited next
stop_liveness_task ==
    /\ shutdown["liveness"] = "serving"
    /\ loops' = IF loops["liveness"].task = "pending"
                THEN [loops EXCEPT !["liveness"].cancelled = TRUE]
                ELSE loops
    /\ shutdown' = [shutdown EXCEPT !["liveness"] = "closing"]
    /\ UNCHANGED <<tasks, background_tasks>>
    /\ UNCHANGED notTasks

\* lifespan: ws_manager.close_all returns, and lifespan with it
lifespan_returns ==
    /\ shutdown["liveness"] = "closing"
    /\ shutdown' = [shutdown EXCEPT !["liveness"] = "returned"]
    /\ UNCHANGED <<loops, tasks, background_tasks>>
    /\ UNCHANGED notTasks

\* the next task object
NextTask == CHOOSE t \in TaskIds : tasks[t].state = "none" /\ \A u \in 1..(t - 1) : tasks[u].state # "none"

\* spawn_background_task: create_task, add to the set, discard on completion
spawn_background_task(origin) ==
    /\ tasks' = [tasks EXCEPT ![NextTask] = [origin |-> origin, state |-> "pending",
                                             callback |-> TRUE]]
    /\ background_tasks' = background_tasks \cup {NextTask}

\* a bare asyncio.create_task
create_task(origin) ==
    /\ tasks' = [tasks EXCEPT ![NextTask] = [origin |-> origin, state |-> "pending",
                                             callback |-> FALSE]]
    /\ UNCHANGED background_tasks

\* api/messages.py send_message: the invocation task of a human message
send_message ==
    /\ \E t \in TaskIds : tasks[t].state = "none"
    /\ spawn_background_task("human")
    /\ UNCHANGED <<loops, shutdown>>
    /\ UNCHANGED notTasks

\* message_router.send_agent_message: the invocation task of an agent message
send_agent_message ==
    /\ \E t \in TaskIds : tasks[t].state = "none"
    /\ create_task("agent")
    /\ UNCHANGED <<loops, shutdown>>
    /\ UNCHANGED notTasks

\* an invocation task ends (_invoke_with_error_handling catches what the
\* invocation raises); its done callback, if any, discards it from the set
task_completes(t) ==
    /\ tasks[t].state = "pending"
    /\ tasks' = [tasks EXCEPT ![t].state = "done"]
    /\ background_tasks' = IF tasks[t].callback THEN background_tasks \ {t} ELSE background_tasks
    /\ UNCHANGED <<loops, shutdown>>
    /\ UNCHANGED notTasks

\* both servers up, no loop started, no message posted
TasksInit ==
    /\ loops = [l \in LoopNames |-> NoLoop]
    /\ shutdown = [l \in LoopNames |-> "serving"]
    /\ tasks = [t \in TaskIds |-> NoTask]
    /\ background_tasks = {}

TasksNext ==
    \/ \E l \in LoopNames : start_loop(l)
    \/ \E l \in LoopNames : loop_resumes(l)
    \/ \E l \in LoopNames : loop_cancelled(l)
    \/ stop_watchdog
    \/ stop_watchdog_returns
    \/ stop_liveness_task
    \/ lifespan_returns
    \/ send_message
    \/ send_agent_message
    \/ \E t \in TaskIds : task_completes(t)

\* ================== services/ws_manager.py, api/ws.py, api/internal.py

MaxConns == 2
Conns == 1..MaxConns
Channels == {"chan-A", "chan-B"}

\* the events of one broadcast request: a message in a channel, or another event
Events == {[type |-> "new_message", channel_id |-> c] : c \in Channels}
            \cup {[type |-> "agent_status", channel_id |-> NoneVal]}

INTERNAL_SECRET == "secret"
Headers == {NoneVal, "wrong", INTERNAL_SECRET}

\* WSClient
NoClient == [state |-> NoneVal, subscribed_channels |-> {}, got |-> FALSE]
NewClient == [state |-> "CONNECTED", subscribed_channels |-> {}, got |-> FALSE]

IdleBcast == [pc |-> "idle", header |-> NoneVal, event |-> NoneVal, i |-> 0, size |-> 0,
              to |-> 0, dead |-> {}, response |-> NoneVal]

\* the keys of _clients, and its entries as the iterator walks them
Connected == {c \in Conns : \E j \in 1..Len(ws_slots) : ws_slots[j] = c}
Accepted == {c \in Conns : \E j \in 1..Len(ws_slots) : ws_slots[j] \in {c, -c}}
Removed(slots, gone) ==
    [j \in 1..Len(slots) |-> IF slots[j] \in gone THEN -slots[j] ELSE slots[j]]

\* ConnectionManager.accept
ws_accept(c) ==
    /\ c \notin Accepted
    /\ ws_slots' = Append(ws_slots, c)
    /\ ws_clients' = [ws_clients EXCEPT ![c] = NewClient]
    /\ UNCHANGED bcast
    /\ UNCHANGED notWs

\* the peer goes away; websocket_endpoint has not yet reached its finally
ws_peer_closes(c) ==
    /\ c \in Connected /\ ws_clients[c].state = "CONNECTED"
    /\ ws_clients' = [ws_clients EXCEPT ![c].state = "DISCONNECTED"]
    /\ UNCHANGED <<ws_slots, bcast>>
    /\ UNCHANGED notWs

\* ConnectionManager.disconnect, from the finally of websocket_endpoint
ws_disconnect(c) ==
    /\ c \in Connected /\ ws_clients[c].state = "DISCONNECTED"
    /\ ws_slots' = Removed(ws_slots, {c})
    /\ ws_clients' = [ws_clients EXCEPT ![c] = NoClient]
    /\ UNCHANGED bcast
    /\ UNCHANGED notWs

\* ConnectionManager.subscribe, on action "subscribe"
ws_subscribe(c, channel_ids) ==
    /\ c \in Connected /\ ws_clients[c].state = "CONNECTED"
    /\ ws_clients' = [ws_clients EXCEPT ![c].subscribed_channels = @ \cup channel_ids]
    /\ UNCHANGED <<ws_slots, bcast>>
    /\ UNCHANGED notWs

\* ConnectionManager.unsubscribe, on action "unsubscribe"
ws_unsubscribe(c, channel_ids) ==
    /\ c \in Connected /\ ws_clients[c].state = "CONNECTED"
    /\ ws_clients' = [ws_clients EXCEPT ![c].subscribed_channels = @ \ channel_ids]
    /\ UNCHANGED <<ws_slots, bcast>>
    /\ UNCHANGED notWs

\* the channel filter of ConnectionManager.broadcast
passes_filter_subscribed_only(client, event) ==
    event.type = "new_message" => event.channel_id \in client.subscribed_channels

passes_filter(client, event) ==
    ~(/\ event.type = "new_message"
      /\ client.subscribed_channels # {}
      /\ event.channel_id \notin client.subscribed_channels)

\* ConnectionManager.broadcast from entry i on, up to the next send_text or,
\* when no entry is left to send to, through the removal of the dead
\* connections to the response of the endpoint
BroadcastFrom(b, i, clients) ==
    LET live == {j \in i..Len(ws_slots) :
                    ws_slots[j] > 0 /\ passes_filter(clients[ws_slots[j]], b.event)}
        open == {j \in live : clients[ws_slots[j]].state = "CONNECTED"}
        next == IF open = {} THEN Len(ws_slots) + 1
                ELSE CHOOSE j \in open : \A k \in open : j <= k
        dead == b.dead \cup {ws_slots[j] : j \in {k \in live : k < next}}
    IN IF open # {}
       THEN /\ bcast' = [b EXCEPT !.pc = "sending", !.i = next + 1,
                                  !.to = ws_slots[next], !.dead = dead]
            /\ ws_clients' = clients
            /\ UNCHANGED ws_slots
       ELSE /\ bcast' = [b EXCEPT !.pc = "responded", !.i = next, !.to = 0,
                                  !.dead = dead, !.response = "ok"]
            /\ ws_slots' = Removed(ws_slots, dead)
            /\ ws_clients' = [c \in Conns |-> IF c \in dead THEN NoClient ELSE clients[c]]

\* broadcast_event of api/internal.py: the secret check, then the broadcast up
\* to its first send_text
internal_broadcast(header, event) ==
    /\ bcast.pc \in {"idle", "responded"}
    /\ LET fresh == [c \in Conns |-> [ws_clients[c] EXCEPT !.got = FALSE]]
       IN IF header # INTERNAL_SECRET
          THEN /\ bcast' = [IdleBcast EXCEPT !.pc = "responded", !.header = header,
                                             !.event = event, !.response = "403"]
               /\ ws_clients' = fresh
               /\ UNCHANGED ws_slots
          ELSE BroadcastFrom([IdleBcast EXCEPT !.header = header, !.event = event,
                                               !.size = Cardinality(Connected)], 1, fresh)
    /\ UNCHANGED notWs

\* ConnectionManager.broadcast, from the return of send_text on: the text was
\* sent or the call raised; the iterator then finds the dictionary resized
\* (RuntimeError, answered with 500) or goes on
broadcast_send_returns(ok) ==
    /\ bcast.pc = "sending"
    /\ ok => (bcast.to \in Connected /\ ws_clients[bcast.to].state = "CONNECTED")
    /\ LET clients == IF ok THEN [ws_clients EXCEPT ![bcast.to].got = TRUE] ELSE ws_clients
           b == IF ok THEN bcast ELSE [bcast EXCEPT !.dead = @ \cup {bcast.to}]
       IN IF Cardinality(Connected) # bcast.size
          THEN /\ bcast' = [b EXCEPT !.pc = "responded", !.to = 0, !.response = "500"]
               /\ ws_clients' = clients
               /\ UNCHANGED ws_slots
          ELSE BroadcastFrom(b, bcast.i, clients)
    /\ UNCHANGED notWs

WsInit ==
    /\ ws_slots = <<>>
    /\ ws_clients = [c \in Conns |-> NoClient]
    /\ bcast = IdleBcast

WsNext ==
    \/ \E c \in Conns : ws_accept(c)
    \/ \E c \in Conns : ws_peer_closes(c)
    \/ \E c \in Conns : ws_disconnect(c)
    \/ \E c \in Conns, ids \in SUBSET Channels : ws_subscribe(c, ids)
    \/ \E c \in Conns, ids \in SUBSET Channels : ws_unsubscribe(c, ids)
    \/ \E h \in Headers, ev \in Events : internal_broadcast(h, ev)
    \/ \E ok \in BOOLEAN : broadcast_send_returns(ok)

\* ======================================================== specifications
\* the message queue alone: the backend manager and the agent registry stay at rest
InitQueue == QueueInit /\ BackendAtRest /\ AppInit /\ DiscoveryInit /\ RouteInit /\ WsInit /\ PromptAtRest /\ WatchdogAtRest /\ TasksInit /\ RefreshAtRest /\ ScanAtRest /\ ConnectAtRest
SpecQueue == InitQueue /\ [][QueueNext]_vars

\* the message queue when the server keeps running: every wait of a handler ends,
\* every backend call returns and the clock advances; nothing obliges an agent
\* to make a tool call
QueueFairness ==
    \A e \in EntryIds :
        /\ WF_vars(deadline_passes(e))
        /\ WF_vars(entry_ages(e))
        /\ WF_vars(smart_pull_responded(e))
        /\ WF_vars(\E f \in Discoverable : direct_message_timeout(e, f))
        /\ WF_vars(\E o \in Outcomes : direct_message_result(e, o))
        /\ WF_vars(\E f \in Discoverable : api_direct_timeout(e, f))
        /\ WF_vars(\E o \in Outcomes : api_direct_result(e, o))
SpecQueueLive == InitQueue /\ [][QueueNext]_vars /\ QueueFairness

\* the backend manager alone, in any environment
InitBackend == BackendInit /\ QueueInit /\ AppInit /\ DiscoveryInit /\ RouteInit /\ WsInit /\ PromptAtRest /\ WatchdogAtRest /\ TasksInit /\ RefreshAtRest /\ ScanAtRest /\ ConnectAtRest
SpecBackend == InitBackend /\ [][BackendNext]_vars

\* ghost detection over the agent registry
InitGhost == AppInit /\ QueueInit /\ BackendAtRest /\ DiscoveryInit /\ RouteInit /\ WsInit /\ PromptAtRest /\ WatchdogAtRest /\ TasksInit /\ RefreshAtRest /\ ScanAtRest /\ ConnectAtRest
SpecGhost == InitGhost /\ [][GhostNext]_vars

\* invocation attempts over the agent registry
InitInvoke == AppInit /\ QueueInit /\ BackendAtRest /\ DiscoveryInit /\ RouteInit /\ WsInit /\ PromptAtRest /\ WatchdogAtRest /\ TasksInit /\ RefreshAtRest /\ ScanAtRest /\ ConnectAtRest
SpecInvoke == InitInvoke /\ [][InvokeNext]_vars

\* one run of session discovery after another
InitDiscovery == DiscoveryInit /\ QueueInit /\ BackendAtRest /\ AppInit /\ RouteInit /\ WsInit /\ PromptAtRest /\ WatchdogAtRest /\ TasksInit /\ RefreshAtRest /\ ScanAtRest /\ ConnectAtRest
SpecDiscovery == InitDiscovery /\ [][DiscoveryNext]_vars

\* the invocation task of one message
InitRoute == RouteInit /\ AppInit /\ QueueInit /\ BackendAtRest /\ DiscoveryInit /\ WsInit /\ PromptAtRest /\ WatchdogAtRest /\ TasksInit /\ RefreshAtRest /\ ScanAtRest /\ ConnectAtRest
SpecRoute == InitRoute /\ [][RouteNext]_vars

\* one ghost-cache refresh after another over any registered agents
InitRefresh == AgentsRegistered /\ QueueInit /\ BackendAtRest /\ DiscoveryInit /\ RouteInit /\ WsInit /\ PromptAtRest /\ WatchdogAtRest /\ TasksInit /\ RefreshAtRest /\ ScanAtRest /\ ConnectAtRest
SpecRefresh == InitRefresh /\ [][RefreshNext]_vars

\* calls of the process-scan discovery over any processes and directories
InitScan == ScanCalled /\ AppInit /\ QueueInit /\ BackendAtRest /\ DiscoveryInit /\ RouteInit /\ WsInit /\ PromptAtRest /\ WatchdogAtRest /\ TasksInit /\ RefreshAtRest /\ ConnectAtRest
SpecScan == InitScan /\ [][ScanNext]_vars

\* reconnections over any registered agents
InitConnect == AgentsRegistered /\ QueueInit /\ BackendAtRest /\ DiscoveryInit /\ RouteInit /\ WsInit /\ PromptAtRest /\ WatchdogAtRest /\ TasksInit /\ RefreshAtRest /\ ScanAtRest /\ ConnectAtRest
SpecConnect == InitConnect /\ [][ConnectNext]_vars

\* the agent registry on its own
InitRegistry == AppInit /\ QueueInit /\ BackendAtRest /\ DiscoveryInit /\ RouteInit /\ WsInit /\ PromptAtRest /\ WatchdogAtRest /\ TasksInit /\ RefreshAtRest /\ ScanAtRest /\ ConnectAtRest
SpecRegistry == InitRegistry /\ [][RegistryNext]_vars

\* one prompt to an opencode agent through the backend manager
InitPrompt == BackendInit /\ PromptInit /\ QueueInit /\ AppInit /\ DiscoveryInit /\ RouteInit /\ WsInit /\ WatchdogAtRest /\ TasksInit /\ RefreshAtRest /\ ScanAtRest /\ ConnectAtRest
SpecPrompt == InitPrompt /\ [][PromptNext]_vars

\* the WebSocket connections and the broadcast endpoint
InitWs == WsInit /\ QueueInit /\ BackendAtRest /\ AppInit /\ DiscoveryInit /\ RouteInit /\ PromptAtRest /\ WatchdogAtRest /\ TasksInit /\ RefreshAtRest /\ ScanAtRest /\ ConnectAtRest
SpecWs == InitWs /\ [][WsNext]_vars

\* the backend manager with manual stops and the watchdog
SpecSupervise == InitBackend /\ [][SuperviseNext]_vars

\* the background loops with their shutdown, and the invocation tasks
InitTasks == TasksInit /\ QueueInit /\ BackendAtRest /\ AppInit /\ DiscoveryInit /\ RouteInit /\ WsInit /\ PromptAtRest /\ WatchdogAtRest /\ RefreshAtRest /\ ScanAtRest /\ ConnectAtRest
SpecTasks == InitTasks /\ [][TasksNext]_vars

\* ================================================== direct-message properties

\* C1: once an entry's status is responded, expired or fallback, no step of any
\* handler (enqueue, smart-pull delivery, respond, mark-fallback, mark-expired,
\* stale sweep) changes its status or its response.
C1_TerminalEntryIsFinal ==
    [][\A e \in EntryIds :
          direct_queue[e].status \in Terminal
              => /\ direct_queue'[e].status = direct_queue[e].status
                 /\ direct_queue'[e].response = direct_queue[e].response]_vars

\* a fallback entry that is past the expiry age and on which respond_direct was tried
C1_Witness ==
    \E e \in EntryIds : /\ direct_queue[e].status = "fallback"
                        /\ dm[e].pull_in_flight
                        /\ timer[e].stale

\* C4: when respond_direct was called for an entry while its fallback invocation
\* was in flight, the handler returns the smart-pull response and posts no
\* fallback output.
C4_SmartPullWinsRace ==
    \A e \in EntryIds :
        (dm[e].pc = "done" /\ dm[e].pull_in_flight)
            => (dm[e].result = "smart_pull" /\ chat[e].fallback = 0)

\* C5: on both paths at most one response to a direct message is in the chat.
C5_AtMostOneResponsePosted ==
    \A e \in EntryIds : chat[e].pull + chat[e].fallback <= 1

\* the REST handler posted the fallback output after respond_direct was tried
C5_Witness ==
    \E e \in EntryIds : /\ dm[e].pc = "done" /\ dm[e].path = "rest"
                        /\ dm[e].pull_in_flight
                        /\ chat[e].fallback = 1

\* a target the fallback can reach: a CLI type plus a session id or a working directory
C6_Viable(t) ==
    t.cli_type # NoneVal /\ (t.session_id # NoneVal \/ t.working_dir # NoneVal)

\* the step that ends the smart-pull wait of an auto-mode request without a response
C6_TimesOut(e) ==
    /\ dm[e].pc = "polling" /\ dm[e].mode = "auto"
    /\ dm'[e].pc # "polling" /\ dm'[e].result # "smart_pull"

C7_NoBackendLeavesPending ==
    \A e \in EntryIds :
        dm[e].result = "no_backend" => direct_queue[e].status \in Open

\* ==================================================== backend properties

\* start requests r and the request whose start was in flight when r was made
C3_Pairs == {<<a, b>> \in Requesters \X Requesters : req[b].joined = a}

\* C3 as stated: two concurrent start requests spawn exactly one child process.
C3_ExactlyOneSpawn ==
    \A p \in C3_Pairs : spawned[p[1]] + spawned[p[2]] = 1

\* C3: two concurrent start requests spawn at most one child process, the second
\* waits instead of spawning; exactly one when the first found the port free and
\* the opencode executable exists.
C3_AtMostOneSpawn ==
    \A p \in C3_Pairs :
        /\ spawned[p[2]] = 0
        /\ spawned[p[1]] + spawned[p[2]] <= 1
        /\ (backends[p[1]].port_seen = "free" /\ cli_found)
               => spawned[p[1]] + spawned[p[2]] = 1

\* the second request joined the start of the first and both have returned
C3_Witness ==
    \E p \in C3_Pairs : /\ req[p[1]].result = "started"
                        /\ req[p[2]].result = "joined"
                        /\ spawned[p[1]] = 1

\* ================================================= agent properties

\* C2: no two agents hold the same non-empty session id.
C2_SessionIdsUnique ==
    \A a \in AppAgentNames, b \in AppAgentNames :
        (/\ a # b /\ app_agents[a].exists /\ app_agents[b].exists
         /\ app_agents[a].provider_session_id # NoneVal)
            => app_agents[a].provider_session_id # app_agents[b].provider_session_id

C8_SystemAgents == {n \in AppAgentNames : app_agents[n].exists /\ app_agents[n].agent_type = "system"}

\* C8: for a system agent, whatever its credentials and OS session, is_agent_ghost
\* answers not-a-ghost, _compute_ghost computes not-a-ghost, and so does every
\* answer given and every cache entry written.
C8_SystemAgentNeverGhost ==
    \A n \in C8_SystemAgents :
        /\ ~is_agent_ghost(n)
        /\ ~compute_ghost(n, fetch_opencode_sessions)
        /\ ghost_cache[n] # "ghost"
        /\ (ghost_checked # <<>> /\ ghost_checked[1] = n) => ghost_checked[2] = FALSE

\* a system agent with a stale credential and a dead session process, checked both ways
C8_Witness ==
    \E n \in C8_SystemAgents :
        /\ has_credentials(app_agents[n])
        /\ opencode.state = "ok" /\ app_agents[n].provider_session_id \notin opencode.ids
        /\ os_session[n] = "dead"
        /\ ghost_checked = <<n, FALSE>>
        /\ ghost_cache[n] = "not_ghost"

\* C9: for a non-system agent with a credential, is_agent_ghost answers ghost
\* exactly when the server's session list lacks the session id, whatever the
\* agent's OS session.
C9_GhostIffSessionMissing ==
    \A n \in AppAgentNames :
        (/\ app_agents[n].exists /\ app_agents[n].agent_type # "system"
         /\ has_credentials(app_agents[n])
         /\ opencode.state = "ok")
            => (is_agent_ghost(n) <=> app_agents[n].provider_session_id \notin opencode.ids)

C10_NoCredential(n) ==
    app_agents[n].server_url = NoneVal /\ app_agents[n].provider_session_id = NoneVal

\* C10: an attempt that found the stored session dead clears server_url and the
\* session id before it discovers or sends; when its discovery then fails, it
\* has sent no prompt and written no credential, and the record holds none
\* unless another handler stored one since the clear.
C10_StaleCredentialCleared ==
    [][\A k \in AttemptIds :
          /\ (attempts[k].pc = "checking" /\ attempts'[k].stale)
                => attempts'[k].pc = "clearing"
          /\ (attempts[k].pc = "clearing" /\ attempts'[k].pc # "clearing")
                => /\ attempts'[k].pc = "discover_read"
                   /\ attempts'[k].sent = 0
                   /\ C10_NoCredential(attempts[k].target)'
          /\ (attempts[k].stale /\ attempts[k].pc # "done"
              /\ attempts'[k].result = "not_invocable")
                => /\ attempts'[k].sent = 0
                   /\ app_agents' = app_agents
                   /\ ~attempts'[k].disturbed => C10_NoCredential(attempts[k].target)']_vars

\* an attempt found the session dead, cleared the record, and its discovery failed
C10_Witness ==
    \E k \in AttemptIds :
        /\ attempts[k].stale /\ attempts[k].result = "not_invocable"
        /\ ~attempts[k].disturbed
        /\ C10_NoCredential(attempts[k].target)
        /\ attempts[k].sent = 0

\* ======================================================= discovery properties

C11_Rank(strategy) == CHOOSE i \in 1..4 : Strategies[i] = strategy

\* C11: session discovery invokes its strategies in the fixed order PID walk,
\* TTY scan, process scan, remote query, and once a strategy has returned a
\* session id no later strategy is invoked: that strategy is the last one called
C11_FixedOrderFirstHitWins ==
    /\ \A i, j \in 1..Len(discovery.calls) :
            i < j => C11_Rank(discovery.calls[i]) < C11_Rank(discovery.calls[j])
    /\ discovery.found_by # NoneVal =>
            /\ discovery.calls[Len(discovery.calls)] = discovery.found_by
            /\ discovery.pc = "done"
            /\ discovery.result.session_id # NoneVal

\* the PID walk found nothing, the TTY scan found a session, the run is over
C11_Witness ==
    /\ discovery.pc = "done"
    /\ discovery.calls = <<"pid", "tty">>
    /\ discovery.found_by = "tty"

\* ========================================================= routing properties

C12_SelfDm == route.pc # "idle" /\ route.dm_target = Sender

C12_SelfDirectMessageNotQueued ==
    \A e \in EntryIds :
        direct_queue[e].status # "absent" => direct_queue[e].from_agent # direct_queue[e].to_agent

C15_Unreachable(name) ==
    \E i \in 1..Len(events) :
        events[i] = agent_typing_event(name, FALSE, TRUE)

\* C15: every recipient that is a ghost when the task reaches it is not
\* invoked, and an unreachable event is emitted for it, for a human's message
\* and for an agent's message
C15_GhostSkippedWithEvent ==
    route.pc = "done" /\ ~route.raised =>
        \A i \in 1..Len(route.reached) :
            route.reached[i].ghost =>
                /\ ~route.reached[i].called
                /\ C15_Unreachable(route.reached[i].name)

\* C15 on the agent-message path alone
C15_GhostSkippedWithEventAgentPath ==
    route.path = "agent" => C15_GhostSkippedWithEvent

\* C15 on the human-message path alone
C15_GhostSkippedWithEventHumanPath ==
    route.path = "human" => C15_GhostSkippedWithEvent

C16_Calls(name) ==
    Cardinality({i \in 1..Len(route.reached) :
                    route.reached[i].name = name /\ route.reached[i].called})

\* C16: for one message each recipient name gets at most one invocation
\* attempt, whether it is the DM target and mentioned, or mentioned twice, and
\* whether the first attempt succeeded or failed
C16_InvokedAtMostOnce == \A name \in RouteNames : C16_Calls(name) <= 1

C17_Starts(name) ==
    Cardinality({i \in 1..Len(events) : events[i].name = name /\ events[i].is_typing})

C17_Stops(name) ==
    Cardinality({i \in 1..Len(events) : events[i].name = name /\ ~events[i].is_typing})

\* C17: once the task is over, every typing-start event has been followed by
\* exactly one typing-stop event for the same recipient, and no exception of
\* the invocation went past the task
C17_TypingStartHasItsStop ==
    route.pc = "done" => \A name \in RouteNames : C17_Starts(name) = C17_Stops(name)

\* ===================================================== supervisor properties

\* C13: when the port is found bound and its health endpoint answers healthy,
\* start() ends in status running, the manager keeps that backend, and no
\* child process is spawned
C13_HealthyPortIsReused ==
    [][\A r \in Requesters :
          (/\ req[r].pc = "probing" /\ backends[r].client
           /\ port \in {"opencode", "child"}
           /\ req'[r].pc # "probing")
          => /\ backends'[r].status = "running"
             /\ req'[r].result = "reused"
             /\ opencode_backend' = r
             /\ spawned' = spawned
             /\ spawned[r] = 0
             /\ backends'[r].process = "none"]_vars

\* a start found the port held by a healthy OpenCode serve and reused it
C13_Witness ==
    \E r \in Requesters : /\ req[r].result = "reused"
                          /\ port = "opencode"
                          /\ backends[r].status = "running"

C18_UnreachableMeansDead ==
    [][\A k \in AttemptIds :
          /\ (/\ attempts[k].pc = "checking"
              /\ opencode.state = "down"
              /\ attempts'[k].pc # "checking")
             => /\ attempts'[k].pc = "clearing"
                /\ attempts'[k].sent = 0
          /\ (attempts[k].probe = "unreachable" /\ attempts[k].pc = "clearing"
              /\ attempts'[k].pc # "clearing")
             => /\ attempts'[k].pc = "discover_read"
                /\ ~has_credentials(app_agents'[attempts[k].target])
                /\ app_agents'[attempts[k].target].server_url = NoneVal
          /\ (attempts[k].probe = "unreachable" /\ attempts[k].pc = "discover_read"
              /\ attempts'[k].pc # "discover_read")
             => attempts'[k].pc = "discovering"]_vars

\* the probe could not reach the backend, the credential was cleared and
\* discovery is under way
C18_Witness ==
    \E k \in AttemptIds :
        /\ attempts[k].probe = "unreachable"
        /\ attempts[k].pc = "discovering"
        /\ opencode.state = "down"

\* C19: a batch refresh of the ghost cache that cannot reach the backend
\* records every agent holding a credential as alive
C19_UnreachableRecordedAlive ==
    [][(ghost_cache' # ghost_cache /\ opencode.state = "down")
          => \A n \in AppAgentNames :
                (app_agents[n].exists /\ has_credentials(app_agents[n]))
                    => ghost_cache'[n] = "not_ghost"]_vars

\* ======================================================= Session-row properties

\* C20: whatever register, connect, disconnect and heartbeat calls are made,
\* no agent ever has more than one Session row flagged active, and a connect
\* leaves exactly one active row (the new one), the older active rows of that
\* agent having been deactivated
C20_AtMostOneActiveSession ==
    [][/\ \A n \in AppAgentNames : session_rows'[n].active <= 1
       /\ \A n \in RegistryNames, c \in Supplied :
             \A f \in auto_discover(TRUE, claimed_by_others(n)) :
                (session_rows[n].active >= 1 /\ connect_agent(n, c[1], c[2], f))
                    => /\ session_rows'[n].active = 1
                       /\ session_rows'[n].last_heartbeat = "started"]_vars

\* the creator has connected, one agent has an active session with a renewed
\* heartbeat whose process has exited, and another has disconnected
C20_Witness ==
    /\ session_rows[CREATOR_NAME].active = 1
    /\ session_rows["nibex"].active = 1
    /\ session_rows["nibex"].last_heartbeat = "renewed"
    /\ os_session["nibex"] = "dead"
    /\ app_agents["yara"].exists
    /\ session_rows["yara"].active = 0

\* ========================================================== expiry properties

\* C21: every queue entry that is still pending or delivered when it is older
\* than the expiry age is eventually marked expired, whether or not any agent
\* makes another request (an entry that is answered in the meantime is let pass)
C21_StaleEntryEventuallyExpired ==
    \A e \in EntryIds :
        (timer[e].stale /\ direct_queue[e].status \in Open)
            ~> (direct_queue[e].status \in {"expired", "responded"})

\* ======================================================= broadcast properties

\* a send_text of the running broadcast starts in this step
C22_SendStarts == bcast' # bcast /\ bcast'.pc = "sending"

\* the client is subscribed to channels, and not to the one of the message
C22_FilteredOut(c, ev) ==
    /\ ev.type = "new_message"
    /\ ws_clients[c].subscribed_channels # {}
    /\ ev.channel_id \notin ws_clients[c].subscribed_channels

C23_SecretDecidesBroadcast ==
    [][(bcast' # bcast /\ bcast'.pc = "responded")
          => IF bcast'.header # INTERNAL_SECRET
             THEN /\ bcast'.response = "403"
                  /\ \A c \in Conns : ~ws_clients'[c].got
             ELSE bcast'.response = "ok"]_vars

\* =========================================================== prompt properties

\* C24: a 404 on the prompt makes send_prompt create one replacement session
\* and send the prompt once more; a 404 on that second POST, or a replacement
\* that cannot be created, is a failure, with no further session and no
\* further POST
C24_OneReplacementOneRetry ==
    /\ prompt.creates <= 1 /\ prompt.posts <= 2
    /\ prompt.first = "404" => (prompt.creates = 1 \/ prompt.recreated = "failed")
    /\ prompt.first \notin {NoneVal, "404"} => (prompt.creates = 0 /\ prompt.posts = 1)
    /\ prompt.recreated = "created" => (prompt.creates = 1 /\ prompt.posts = 2)
    /\ prompt.recreated = "failed" => (prompt.posts = 1 /\ prompt.sp_result = "failed")
    /\ prompt.second = "404" =>
          (prompt.sp_result = "failed" /\ prompt.creates = 1 /\ prompt.posts = 2)

\* the replacement session answered 404 as well, and the call is over
C24_Witness ==
    /\ prompt.pc = "done"
    /\ prompt.first = "404" /\ prompt.recreated = "created" /\ prompt.second = "404"
    /\ prompt.session_id = "ses_new"

\* the answer that ended send_prompt
C25_Last == IF prompt.second # NoneVal THEN prompt.second ELSE prompt.first

\* C25: a prompt that times out on the server is reported as timed out, after
\* at most one abort request and with no subprocess; a prompt that fails on the
\* server in any other way goes to exactly one subprocess invocation
C25_TimeoutReportedOtherFailuresFallBack ==
    prompt.pc = "done" =>
        /\ C25_Last = "timeout" =>
              (prompt.result = "timed_out" /\ prompt.aborts <= 1 /\ prompt.subprocess = 0)
        /\ (C25_Last \in {"404", "http_error", "connect_error", "other_error"}
              \/ prompt.recreated = "failed")
              => (prompt.result = "subprocess" /\ prompt.subprocess = 1)

\* ===================================================== watchdog properties

\* the watchdog's health request has been answered unhealthy for the backend
\* the manager still holds, and the cycle now decides
C26_FoundUnhealthy ==
    /\ watchdog.pc = "checking" /\ watchdog'.pc # "checking"
    /\ opencode_backend # NoRequest /\ opencode_backend = watchdog.backend
    /\ ~is_available(backends[watchdog.backend])

\* how the watchdog's call of _ensure_opencode_started ended: it returned
C26_Restarted == req[watchdog.r].result \in {"started", "reused", "joined", "already_running"}

C27_StartFailed(r) ==
    /\ req[r].pc = "done" /\ spawned[r] = 1
    /\ req[r].result \in {"died", "not_healthy", "health_error"}

\* C27: after a start() that failed once the child was spawned, the child does
\* not run, the backend of that attempt does not report running, and the
\* manager does not hold it
C27_FailedStartLeavesNothing ==
    \A r \in Requesters :
        C27_StartFailed(r) =>
            /\ backends[r].process \notin {"alive", "listening"}
            /\ status(backends[r]) # "running"
            /\ opencode_backend # r

\* ============================================== backend status properties

BackendStatuses == {"stopped", "starting", "running", "error"}

\* the status changes written in the state machine
C28_Machine == {<<"stopped", "starting">>, <<"starting", "running">>,
                <<"running", "error">>, <<"running", "stopped">>}

\* the status changes of a start() that fails, of stop() in any status, and of
\* a ConnectError that reaches send_prompt after the backend was stopped
C28_FailureAndStop == {<<"starting", "error">>, <<"stopped", "error">>,
                       <<"starting", "stopped">>, <<"error", "stopped">>}

\* the status changes of one step, over all backend objects
C28_Changes ==
    {<<backends[r].status, backends'[r].status>> : r \in Requesters} \
       {<<st, st>> : st \in BackendStatuses}

C29_LoopsGoneAfterShutdown ==
    /\ [](\A l \in LoopNames : shutdown[l] = "returned" => loops[l].task # "pending")
    /\ [][\A l \in LoopNames :
             shutdown[l] = "returned" => loops'[l].cycles = loops[l].cycles]_vars

\* C30: an invocation task, of a human message or of an agent message, is in
\* _background_tasks for as long as it is pending, and not in it once it is done
C30_InvocationTasksTracked ==
    \A t \in TaskIds :
        /\ tasks[t].state = "pending" => t \in background_tasks
        /\ tasks[t].state = "done" => t \notin background_tasks

\* =============================================== properties of C31 to C40

\* the names one message addresses, the sender apart
C31_Addressed ==
    ({route.dm_target} \cup {route.mentions[i] : i \in 1..Len(route.mentions)})
        \ {NoneVal, Sender}

C31_Reached(name) == \E i \in 1..Len(route.reached) : route.reached[i].name = name

\* C31: once the task of a message is over, every registered agent it
\* addresses has been reached (invoked, or passed over as a ghost) or is a
\* ghost the path passes over, whatever the attempts for the other recipients
\* ended with
C31_EveryRecipientAttempted ==
    route.pc = "done" =>
        \A name \in C31_Addressed :
            app_agents[name].exists =>
                C31_Reached(name) \/ ghost_skipped(route.path, name)

\* C32: during one refresh at most one session-list request goes to each
\* server_url, however many agents hold credentials on it and whatever the
\* request ended with
C32_OneRequestPerServer == \A u \in RefreshUrls : refresh.requests[u] <= 1

\* a refresh is published in which two agents held credentials on one server,
\* whose single request failed (its answer was the empty set)
C32_Witness ==
    /\ refresh.pc = "published"
    /\ \E u \in RefreshUrls :
          /\ refresh.requests[u] = 1
          /\ refresh.opencode_sessions[u] = [known |-> TRUE, ids |-> {}]
          /\ Cardinality({n \in AppAgentNames :
                            /\ has_credentials(app_agents[n])
                            /\ app_agents[n].server_url = u}) = 2

\* C33: when computing the status of one agent failed, the statuses computed
\* before it in this refresh are in the cache
C33_ComputedStatusesPublished ==
    refresh.pc = "failed" =>
        \A n \in AppAgentNames :
            refresh.new_cache[n] # "absent" => ghost_cache[n] = refresh.new_cache[n]

C36_ScanAndRestNeverReturnExcluded ==
    (discovery.pc = "done" /\ discovery.found_by \in {"scan", "rest"}) =>
        discovery.result.session_id \notin discovery.exclude

RECURSIVE C34_Components(_, _)
\* the components of a path: what stands between its slashes
C34_Components(str, name) ==
    IF str = <<>> THEN (IF name = <<>> THEN <<>> ELSE <<name>>)
    ELSE IF Head(str) = "/"
         THEN (IF name = <<>> THEN <<>> ELSE <<name>>) \o C34_Components(Tail(str), <<>>)
    ELSE C34_Components(Tail(str), Append(name, Head(str)))

C34_Within(inner, outer) ==
    Len(outer) <= Len(inner) /\ SubSeq(inner, 1, Len(outer)) = outer

\* a running session qualifies: not excluded, and its registry directory is
\* the project path, above it or below it, component by component
C34_Qualifies(sid) ==
    /\ sid \notin scan.exclude
    /\ scan.directories[sid] # <<>>
    /\ LET directory == C34_Components(scan.directories[sid], <<>>)
           project == C34_Components(scan.project_path, <<>>)
       IN C34_Within(directory, project) \/ C34_Within(project, directory)

C34_Qualifying ==
    {k \in 1..Len(scan.active_sessions) : C34_Qualifies(scan.active_sessions[k])}

\* C34: the process scan returns the first running session, in scan order,
\* that qualifies, and None when no running session qualifies
C34_FirstQualifyingSession ==
    scan.pc = "returned" =>
        scan.result = IF C34_Qualifying = {} THEN NoneVal
                      ELSE scan.active_sessions[CHOOSE k \in C34_Qualifying :
                                                    \A j \in C34_Qualifying : k <= j]

\* the second session listed is returned, because the directory of the first
\* only shares leading characters with the project path
C34_Witness ==
    /\ scan.pc = "returned"
    /\ Len(scan.active_sessions) = 2
    /\ scan.result = scan.active_sessions[2]
    /\ scan.active_sessions[1] # scan.active_sessions[2]
    /\ scan.active_sessions[1] \notin scan.exclude
    /\ scan.directories[scan.active_sessions[1]] = <<"/", "a", "b">>
    /\ scan.project_path = <<"/", "a", "/">>

\* the serve processes spawned by a start and not terminated or exited since
C35_Running == {r \in Requesters : backends[r].process \in {"alive", "listening"}}

\* C35: every serve process that was spawned and still runs belongs to the
\* backend object the manager holds, the one shutdown() stops
C35_RunningProcessIsOwned == \A r \in C35_Running : opencode_backend = r

C37_Pair(server_url, session_id) == <<server_url, session_id>>

\* C37: after connect_agent the stored (server_url, session id) pair is the
\* pair it was called with, the pair auto_discover returned in that call, or
\* the pair the agent held before the call
C37_StoredPairIsWhole ==
    connected.name # NoneVal =>
        LET row == app_agents[connected.name]
        IN C37_Pair(row.server_url, row.provider_session_id) \in
             {C37_Pair(connected.before.server_url, connected.before.provider_session_id),
              C37_Pair(connected.server_url, connected.provider_session_id),
              C37_Pair(connected.found.server_url, connected.found.session_id)}

\* C38: an entry is in status fallback only if send_to_agent was called for
\* its request, and a request refused for a missing CLI type, session id or
\* working directory does not leave its entry in fallback
C38_FallbackMeansInvoked ==
    \A e \in EntryIds :
        /\ direct_queue[e].status = "fallback" => invoked[e] >= 1
        /\ dm[e].result \in {"error_no_cli_type", "error_no_session", "no_backend"}
               => direct_queue[e].status # "fallback"

\* C38 for direct_message alone
C38_FallbackMeansInvokedMcp ==
    \A e \in EntryIds :
        (dm[e].path = "mcp" /\ direct_queue[e].status = "fallback") => invoked[e] >= 1

\* a tool that ends in _inject_pending_directs is called by name
C39_ToolCall(name) == \E found \in Discoverable : tool_send_message(name, found)

\* an entry that was queued is never pending again once it has left pending
C39_NeverPendingAgain ==
    \A e \in EntryIds :
        direct_queue[e].status \notin {"absent", "pending"} => direct_queue'[e].status # "pending"

\* the entries a tool call of name writes into its response are addressed to
\* name and pending, and the call marks them delivered and changes nothing
\* else of them
C39_InjectedForCaller(name) ==
    \A e \in injected_directs(direct_queue, name) :
        /\ direct_queue[e].to_agent = name
        /\ direct_queue[e].status = "pending"
        /\ direct_queue'[e] = [direct_queue[e] EXCEPT !.status = "delivered"]

\* C39 as stated: a tool call injects only pending entries of its caller and
\* marks them delivered, no entry is injected twice, and the call leaves the
\* entries addressed to other agents unchanged
C39_DeliveryLeavesOthersUnchanged ==
    [][/\ C39_NeverPendingAgain
       /\ \A name \in AgentNames :
             C39_ToolCall(name) =>
                /\ C39_InjectedForCaller(name)
                /\ \A e \in EntryIds :
                      direct_queue[e].to_agent # name => direct_queue'[e] = direct_queue[e]]_vars

\* C39: a tool call injects only pending entries of its caller and marks them
\* delivered, no entry is injected twice, and of the entries addressed to
\* other agents the call changes nothing but the status of those that are
\* open and past the expiry age, which its lazy sweep sets to expired
C39_DeliveryLeavesOthersToTheSweep ==
    [][/\ C39_NeverPendingAgain
       /\ \A name \in AgentNames :
             C39_ToolCall(name) =>
                /\ C39_InjectedForCaller(name)
                /\ \A e \in EntryIds :
                      direct_queue[e].to_agent # name =>
                         \/ direct_queue'[e] = direct_queue[e]
                         \/ /\ timer[e].stale
                            /\ direct_queue[e].status \in Open
                            /\ direct_queue'[e] = [direct_queue[e] EXCEPT
                                                        !.status = "expired"]]_vars

\* an agent was handed its entry by one of its tool calls before the entry
\* reached the expiry age, and the sender is still waiting for the response
C39_Witness ==
    \E e \in EntryIds :
        /\ direct_queue[e].status = "delivered"
        /\ direct_queue[e].to_agent \in AgentNames
        /\ dm[e].pc = "polling"
        /\ ~timer[e].stale

\* respond_direct is due to change the entry: a registered caller, who is the
\* addressee of the entry, and the entry pending or delivered
C40_Accepted(name, e) ==
    /\ agents[name].registered
    /\ direct_queue[e].to_agent = name
    /\ direct_queue[e].status \in Open

\* C40: respond_direct sets the entry to responded, stores the response and
\* posts one chat message when the caller is the addressee and the entry is
\* pending or delivered; in every other case it returns an error and leaves
\* the queue and the chat as they were
C40_RespondOnlyByAddresseeWhileOpen ==
    [][\A name \in AgentNames, e \in EntryIds, r \in ResponseTexts :
          tool_respond_direct(name, e, r) =>
             IF C40_Accepted(name, e)
             THEN /\ RespondCheck(name, e) = "ok"
                  /\ direct_queue' = [direct_queue EXCEPT ![e].status = "responded",
                                                           ![e].response = r]
                  /\ chat' = [chat EXCEPT ![e].pull = @ + 1]
             ELSE /\ RespondCheck(name, e) # "ok"
                  /\ direct_queue' = direct_queue
                  /\ chat' = chat]_vars

\* a response was accepted and posted once, from an entry the addressee had
\* been handed, and the sender has read it
C40_Witness ==
    \E e \in EntryIds :
        /\ direct_queue[e].status = "responded"
        /\ direct_queue[e].response \in ResponseTexts
        /\ chat[e].pull = 1
        /\ dm[e].result = "smart_pull"

====
